---- MODULE Spec2Model ----
(***************************************************************************)
(* Transport and framing layer of the montycat client: request encoding,  *)
(* connection set-up, the one-shot and the streaming read loop of         *)
(* send_data, and the subscription's cancellation token.                  *)
(*                                                                         *)
(* Byte strings are sequences of one-character strings.                   *)
(***************************************************************************)
EXTENDS Integers, Sequences, FiniteSets, TLC

(* ------------------------------ bounds -------------------------------- *)

\* number of bytes the server sends in one exchange
MaxBytes == 3

\* number of values the owner sends on the stop channel
MaxSends == 2

\* number of bytes the server sends on the socket of one concurrent call
ConnBytes == 4

\* the nesting depth of the payloads handed to the normalizer
MaxDepth == 2

(* ------------------------- program constants -------------------------- *)

CHUNK_SIZE == 262144

(* ----------------------------- byte strings --------------------------- *)

NL == "\n"

Quote == "\""

Backslash == "\\"

SubscribeToken == <<"s", "u", "b", "s", "c", "r", "i", "b", "e">>

\* Option<T>
None == [some |-> FALSE, v |-> <<>>]

Some(x) == [some |-> TRUE, v |-> x]

\* slice::contains(&b'\n')
ContainsNewline(b) == \E i \in 1..Len(b) : b[i] = NL

\* query.windows(n).any(|w| w == token)
ContainsWindow(q, token) ==
    \E i \in 1..(Len(q) - Len(token) + 1) :
        SubSeq(q, i, i + Len(token) - 1) = token

\* the JSON serializer's string escaping, for the characters the model uses
RECURSIVE EscapeJson(_)
EscapeJson(s) ==
    IF s = <<>> THEN <<>>
    ELSE LET c == Head(s)
             e == IF c = NL THEN <<Backslash, "n">>
                  ELSE IF c = Quote THEN <<Backslash, Quote>>
                  ELSE IF c = Backslash THEN <<Backslash, Backslash>>
                  ELSE <<c>>
         IN  e \o EscapeJson(Tail(s))

JsonString(s) == <<Quote>> \o EscapeJson(s) \o <<Quote>>

JsonBool(b) == IF b THEN <<"t", "r", "u", "e">> ELSE <<"f", "a", "l", "s", "e">>

JsonNull == <<"n", "u", "l", "l">>

JsonOptString(o) == IF o.some THEN JsonString(o.v) ELSE JsonNull

\* a JSON array of strings
RECURSIVE JsonStringItems(_)
JsonStringItems(xs) ==
    IF xs = <<>> THEN <<>>
    ELSE IF Len(xs) = 1 THEN JsonString(xs[1])
    ELSE JsonString(Head(xs)) \o <<",">> \o JsonStringItems(Tail(xs))

JsonStringArray(xs) == <<"[">> \o JsonStringItems(xs) \o <<"]">>

\* "name":
JsonKey(name) == JsonString(name) \o <<":">>

Digits == <<"0", "1", "2", "3", "4", "5", "6", "7", "8", "9">>

\* integer to_string(): decimal digits, no sign, no leading zero
RECURSIVE Decimal(_)
Decimal(n) ==
    IF n < 10 THEN <<Digits[n + 1]>>
    ELSE Decimal(n \div 10) \o <<Digits[(n % 10) + 1]>>

(* --------------------------- request encoding ------------------------- *)

F_schema == <<"s", "c", "h", "e", "m", "a">>

F_username == <<"u", "s", "e", "r", "n", "a", "m", "e">>

F_password == <<"p", "a", "s", "s", "w", "o", "r", "d">>

F_keyspace == <<"k", "e", "y", "s", "p", "a", "c", "e">>

F_store == <<"s", "t", "o", "r", "e">>

F_persistent == <<"p", "e", "r", "s", "i", "s", "t", "e", "n", "t">>

F_distributed == <<"d", "i", "s", "t", "r", "i", "b", "u", "t", "e", "d">>

F_limit_output == <<"l", "i", "m", "i", "t", "_", "o", "u", "t", "p", "u", "t">>

F_key == <<"k", "e", "y">>

F_value == <<"v", "a", "l", "u", "e">>

F_command == <<"c", "o", "m", "m", "a", "n", "d">>

F_expire == <<"e", "x", "p", "i", "r", "e">>

F_bulk_values == <<"b", "u", "l", "k", "_", "v", "a", "l", "u", "e", "s">>

F_bulk_keys == <<"b", "u", "l", "k", "_", "k", "e", "y", "s">>

F_bulk_keys_values == <<"b", "u", "l", "k", "_", "k", "e", "y", "s", "_", "v", "a", "l", "u", "e", "s">>

F_search_criteria == <<"s", "e", "a", "r", "c", "h", "_", "c", "r", "i", "t", "e", "r", "i", "a">>

F_with_pointers == <<"w", "i", "t", "h", "_", "p", "o", "i", "n", "t", "e", "r", "s">>

F_key_included == <<"k", "e", "y", "_", "i", "n", "c", "l", "u", "d", "e", "d">>

F_volumes == <<"v", "o", "l", "u", "m", "e", "s">>

F_latest_volume == <<"l", "a", "t", "e", "s", "t", "_", "v", "o", "l", "u", "m", "e">>

F_pointers_metadata == <<"p", "o", "i", "n", "t", "e", "r", "s", "_", "m", "e", "t", "a", "d", "a", "t", "a">>

F_raw == <<"r", "a", "w">>

F_credentials == <<"c", "r", "e", "d", "e", "n", "t", "i", "a", "l", "s">>

Cmd_create_store == <<"c", "r", "e", "a", "t", "e", "-", "s", "t", "o", "r", "e">>

Cmd_get_value == <<"g", "e", "t", "_", "v", "a", "l", "u", "e">>

\* StoreRequestClient::default(): empty strings and collections, false, 0
StoreRequestDefault ==
    [schema |-> None, username |-> <<>>, password |-> <<>>, keyspace |-> <<>>,
     store |-> <<>>, persistent |-> FALSE, distributed |-> FALSE,
     limit_output |-> <<>>, key |-> None, value |-> <<>>, command |-> <<>>,
     expire |-> 0, bulk_values |-> <<>>, bulk_keys |-> <<>>,
     bulk_keys_values |-> <<>>, search_criteria |-> <<>>,
     with_pointers |-> FALSE, key_included |-> FALSE, volumes |-> <<>>,
     latest_volume |-> FALSE, pointers_metadata |-> FALSE]

\* a JSON object of string -> number entries, given as a sequence of pairs
RECURSIVE JsonNumberMapItems(_)
JsonNumberMapItems(ps) ==
    IF ps = <<>> THEN <<>>
    ELSE LET e == JsonKey(ps[1][1]) \o Decimal(ps[1][2])
         IN  IF Len(ps) = 1 THEN e ELSE e \o <<",">> \o JsonNumberMapItems(Tail(ps))

\* a JSON object of string -> string entries, given as a sequence of pairs
RECURSIVE JsonStringMapItems(_)
JsonStringMapItems(ps) ==
    IF ps = <<>> THEN <<>>
    ELSE LET e == JsonKey(ps[1][1]) \o JsonString(ps[1][2])
         IN  IF Len(ps) = 1 THEN e ELSE e \o <<",">> \o JsonStringMapItems(Tail(ps))

\* the derived Serialize of StoreRequestClient: the fields in declaration order
SerializeStoreRequest(r) ==
    <<"{">>
    \o JsonKey(F_schema) \o JsonOptString(r.schema) \o <<",">>
    \o JsonKey(F_username) \o JsonString(r.username) \o <<",">>
    \o JsonKey(F_password) \o JsonString(r.password) \o <<",">>
    \o JsonKey(F_keyspace) \o JsonString(r.keyspace) \o <<",">>
    \o JsonKey(F_store) \o JsonString(r.store) \o <<",">>
    \o JsonKey(F_persistent) \o JsonBool(r.persistent) \o <<",">>
    \o JsonKey(F_distributed) \o JsonBool(r.distributed) \o <<",">>
    \o JsonKey(F_limit_output) \o <<"{">> \o JsonNumberMapItems(r.limit_output) \o <<"}", ",">>
    \o JsonKey(F_key) \o JsonOptString(r.key) \o <<",">>
    \o JsonKey(F_value) \o JsonString(r.value) \o <<",">>
    \o JsonKey(F_command) \o JsonString(r.command) \o <<",">>
    \o JsonKey(F_expire) \o Decimal(r.expire) \o <<",">>
    \o JsonKey(F_bulk_values) \o JsonStringArray(r.bulk_values) \o <<",">>
    \o JsonKey(F_bulk_keys) \o JsonStringArray(r.bulk_keys) \o <<",">>
    \o JsonKey(F_bulk_keys_values) \o <<"{">> \o JsonStringMapItems(r.bulk_keys_values) \o <<"}", ",">>
    \o JsonKey(F_search_criteria) \o JsonString(r.search_criteria) \o <<",">>
    \o JsonKey(F_with_pointers) \o JsonBool(r.with_pointers) \o <<",">>
    \o JsonKey(F_key_included) \o JsonBool(r.key_included) \o <<",">>
    \o JsonKey(F_volumes) \o JsonStringArray(r.volumes) \o <<",">>
    \o JsonKey(F_latest_volume) \o JsonBool(r.latest_volume) \o <<",">>
    \o JsonKey(F_pointers_metadata) \o JsonBool(r.pointers_metadata)
    \o <<"}">>

\* Req::new_raw_command: the map {"raw": command, "credentials": credentials}
new_raw_command(command, credentials) ==
    [shape |-> "Raw", raw |-> command, credentials |-> credentials]

\* Req::new_store_command
new_store_command(store_request) ==
    [shape |-> "Store", store_request |-> store_request]

\* Req::byte_down: the JSON text followed by one newline byte
byte_down(req) ==
    IF req.shape = "Raw"
    THEN <<"{">> \o JsonKey(F_raw) \o JsonStringArray(req.raw) \o <<",">>
         \o JsonKey(F_credentials) \o JsonStringArray(req.credentials)
         \o <<"}">> \o <<NL>>
    ELSE SerializeStoreRequest(req.store_request) \o <<NL>>

\* fulfil_subscription_request: the JSON text of the subscription map
fulfil_subscription_request(store, keyspace, key, username, password) ==
    <<"{">> \o JsonKey(SubscribeToken) \o JsonBool(TRUE) \o <<",">>
    \o JsonKey(F_store) \o JsonString(store) \o <<",">>
    \o JsonKey(F_keyspace) \o JsonString(keyspace) \o <<",">>
    \o (IF key.some THEN JsonKey(F_key) \o JsonString(key.v) \o <<",">> ELSE <<>>)
    \o JsonKey(F_username) \o JsonString(username) \o <<",">>
    \o JsonKey(F_password) \o JsonString(password)
    \o <<"}">>

(* -------------------------- custom key hashing ------------------------ *)

\* the UTF-8 byte of each character the model's keys are made of
ByteOf ==
    "a" :> 97 @@
    "b" :> 98 @@
    "c" :> 99 @@
    "d" :> 100 @@
    "e" :> 101 @@
    "f" :> 102 @@
    "g" :> 103 @@
    "h" :> 104 @@
    "i" :> 105 @@
    "j" :> 106 @@
    "k" :> 107 @@
    "l" :> 108 @@
    "m" :> 109 @@
    "n" :> 110 @@
    "o" :> 111 @@
    "p" :> 112 @@
    "q" :> 113 @@
    "r" :> 114 @@
    "s" :> 115 @@
    "t" :> 116 @@
    "u" :> 117 @@
    "v" :> 118 @@
    "w" :> 119 @@
    "x" :> 120 @@
    "y" :> 121 @@
    "z" :> 122 @@
    "0" :> 48 @@
    "1" :> 49 @@
    "2" :> 50 @@
    "3" :> 51 @@
    "4" :> 52 @@
    "5" :> 53 @@
    "6" :> 54 @@
    "7" :> 55 @@
    "8" :> 56 @@
    "9" :> 57 @@
    "\n" :> 10 @@
    "\"" :> 34 @@
    "\\" :> 92 @@
    "-" :> 45 @@
    "_" :> 95

\* key_str.as_bytes()
as_bytes(s) == [i \in 1..Len(s) |-> ByteOf[s[i]]]

\* 32-bit words are kept as two 16-bit halves
Word(hi, lo) == [hi |-> hi, lo |-> lo]

PRIME32_1 == Word(40503, 31153)

PRIME32_2 == Word(34283, 51831)

PRIME32_3 == Word(49842, 44605)

PRIME32_4 == Word(10196, 60207)

PRIME32_5 == Word(5718, 26545)

RECURSIVE Pow2(_)
Pow2(n) == IF n = 0 THEN 1 ELSE 2 * Pow2(n - 1)

\* wrapping_add
Add32(x, y) ==
    LET lo == x.lo + y.lo
    IN  Word((x.hi + y.hi + (lo \div 65536)) % 65536, lo % 65536)

\* the low 16 bits of the product of two 16-bit numbers
MulLo16(a, b) == ((a % 256) * b + (((a \div 256) * b) % 256) * 256) % 65536

\* the 32-bit product of two 16-bit numbers
Mul16(a, b) ==
    LET t0 == (a % 256) * b
        t1 == (a \div 256) * b
        lo == (t0 % 65536) + (t1 % 256) * 256
    IN  Word((t0 \div 65536) + (t1 \div 256) + (lo \div 65536), lo % 65536)

\* wrapping_mul
Mul32(x, y) ==
    LET p == Mul16(x.lo, y.lo)
    IN  Word((p.hi + MulLo16(x.hi, y.lo) + MulLo16(x.lo, y.hi)) % 65536, p.lo)

\* rotate_left
Rotl32(x, r) ==
    LET y == IF r >= 16 THEN Word(x.lo, x.hi) ELSE x
        k == r % 16
    IN  Word(((y.hi * Pow2(k)) % 65536) + (y.lo \div Pow2(16 - k)),
             ((y.lo * Pow2(k)) % 65536) + (y.hi \div Pow2(16 - k)))

\* x >> s, for 0 < s <= 16
Shr32(x, s) ==
    IF s = 16 THEN Word(0, x.hi)
    ELSE Word(x.hi \div Pow2(s), (x.lo \div Pow2(s)) + (x.hi % Pow2(s)) * Pow2(16 - s))

RECURSIVE Xor16(_, _)
Xor16(a, b) ==
    IF a = 0 THEN b
    ELSE IF b = 0 THEN a
    ELSE ((a + b) % 2) + 2 * Xor16(a \div 2, b \div 2)

Xor32(x, y) == Word(Xor16(x.hi, y.hi), Xor16(x.lo, y.lo))

\* little-endian 32-bit read at offset p (0-based)
Read32(bs, p) == Word(bs[p + 3] + 256 * bs[p + 4], bs[p + 1] + 256 * bs[p + 2])

\* one round of a stripe accumulator
Xxh32Round(acc, input) ==
    Mul32(Rotl32(Add32(acc, Mul32(input, PRIME32_2)), 13), PRIME32_1)

\* the four accumulators after the 16-byte stripes starting at offset p
RECURSIVE Xxh32Stripes(_, _, _)
Xxh32Stripes(bs, p, v) ==
    IF p + 16 > Len(bs) THEN v
    ELSE Xxh32Stripes(bs, p + 16,
            <<Xxh32Round(v[1], Read32(bs, p)), Xxh32Round(v[2], Read32(bs, p + 4)),
              Xxh32Round(v[3], Read32(bs, p + 8)), Xxh32Round(v[4], Read32(bs, p + 12))>>)

\* the remaining bytes: 4 at a time, then one at a time
RECURSIVE Xxh32Tail(_, _, _)
Xxh32Tail(bs, p, h) ==
    IF p + 4 <= Len(bs)
    THEN Xxh32Tail(bs, p + 4,
            Mul32(Rotl32(Add32(h, Mul32(Read32(bs, p), PRIME32_3)), 17), PRIME32_4))
    ELSE IF p < Len(bs)
    THEN Xxh32Tail(bs, p + 1,
            Mul32(Rotl32(Add32(h, Mul32(Word(0, bs[p + 1]), PRIME32_5)), 11), PRIME32_1))
    ELSE h

Xxh32Avalanche(h) ==
    LET h1 == Mul32(Xor32(h, Shr32(h, 15)), PRIME32_2)
        h2 == Mul32(Xor32(h1, Shr32(h1, 13)), PRIME32_3)
    IN  Xor32(h2, Shr32(h2, 16))

\* xxh32(input, seed 0)
xxh32(bs) ==
    LET n == Len(bs)
        full == (n \div 16) * 16
        v == Xxh32Stripes(bs, 0,
                <<Add32(PRIME32_1, PRIME32_2), PRIME32_2, Word(0, 0),
                  Word(65535 - PRIME32_1.hi, 65536 - PRIME32_1.lo)>>)
        h0 == IF n >= 16
              THEN Add32(Add32(Rotl32(v[1], 1), Rotl32(v[2], 7)),
                         Add32(Rotl32(v[3], 12), Rotl32(v[4], 18)))
              ELSE PRIME32_5
    IN  Xxh32Avalanche(Xxh32Tail(bs, full, Add32(h0, Word(n \div 65536, n % 65536))))

\* u32::to_string()
RECURSIVE DecimalWord(_)
DecimalWord(w) ==
    LET qhi == w.hi \div 10
        mid == (w.hi % 10) * 65536 + w.lo
        q == Word(qhi, mid \div 10)
        d == <<Digits[(mid % 10) + 1]>>
    IN  IF q = Word(0, 0) THEN d ELSE DecimalWord(q) \o d

\* convert_custom_key: the decimal text of the 32-bit hash of the key's text
convert_custom_key(key) == DecimalWord(xxh32(as_bytes(key)))

(* ------------------------------ JSON values --------------------------- *)

\* a JSON value as the parser builds it: a literal (null, true, false or a
\* number, kept as its text), a string, an array of values, or an object
\* with its keys and their values
Json(t, s, k, a) == [t |-> t, s |-> s, k |-> k, a |-> a]

\* simd_json::to_string: the JSON text of a value, without whitespace
RECURSIVE to_string(_)
to_string(v) ==
    LET RECURSIVE Items(_)
        Items(i) ==
            IF i > Len(v.a) THEN <<>>
            ELSE (IF i > 1 THEN <<",">> ELSE <<>>)
                 \o (IF v.t = "obj" THEN JsonKey(v.k[i]) ELSE <<>>)
                 \o to_string(v.a[i]) \o Items(i + 1)
    IN  CASE v.t = "lit" -> v.s
          [] v.t = "str" -> JsonString(v.s)
          [] v.t = "arr" -> <<"[">> \o Items(1) \o <<"]">>
          [] v.t = "obj" -> <<"{">> \o Items(1) \o <<"}">>

\* the parser's whitespace: the position of the first byte at or after i
\* that is neither a blank nor a line end
RECURSIVE SkipWhitespace(_, _)
SkipWhitespace(bytes, i) ==
    IF i <= Len(bytes) /\ bytes[i] \in {" ", NL} THEN SkipWhitespace(bytes, i + 1) ELSE i

\* the parser on a string whose opening quote came before position i: the
\* string and the position after its closing quote, or a failure; \", \\
\* and \n are the escapes, a raw line end is refused
RECURSIVE ParseString(_, _, _)
ParseString(bytes, i, acc) ==
    LET At(j, c) == j <= Len(bytes) /\ bytes[j] = c
    IN  IF i > Len(bytes) \/ bytes[i] = NL
        THEN [ok |-> FALSE, v |-> Json("lit", <<>>, <<>>, <<>>), i |-> 0]
        ELSE IF bytes[i] = Quote
        THEN [ok |-> TRUE, v |-> Json("str", acc, <<>>, <<>>), i |-> i + 1]
        ELSE IF bytes[i] = Backslash
        THEN IF At(i + 1, Quote) \/ At(i + 1, Backslash)
             THEN ParseString(bytes, i + 2, Append(acc, bytes[i + 1]))
             ELSE IF At(i + 1, "n") THEN ParseString(bytes, i + 2, Append(acc, NL))
             ELSE [ok |-> FALSE, v |-> Json("lit", <<>>, <<>>, <<>>), i |-> 0]
        ELSE ParseString(bytes, i + 1, Append(acc, bytes[i]))

\* the parser on one value starting at or after position i0: the value and
\* the position after it, or a failure. A literal is null, true, false or a
\* run of digits without a leading zero; a key given twice keeps its last
\* value.
RECURSIVE ParseValue(_, _), ParseElements(_, _, _, _), ParseMembers(_, _, _, _)
ParseValue(bytes, i0) ==
    LET n == Len(bytes)
        i == SkipWhitespace(bytes, i0)
        Failed == [ok |-> FALSE, v |-> Json("lit", <<>>, <<>>, <<>>), i |-> 0]
        Literal(w) == [ok |-> TRUE, v |-> Json("lit", w, <<>>, <<>>), i |-> i + Len(w)]
        word(w) == i + Len(w) - 1 <= n /\ SubSeq(bytes, i, i + Len(w) - 1) = w
        RECURSIVE DigitsEnd(_)
        DigitsEnd(j) ==
            IF j <= n /\ (\E d \in 1..10 : Digits[d] = bytes[j]) THEN DigitsEnd(j + 1) ELSE j
    IN  IF i > n THEN Failed
        ELSE IF bytes[i] = Quote THEN ParseString(bytes, i + 1, <<>>)
        ELSE IF bytes[i] = "[" THEN ParseElements(bytes, i + 1, <<>>, TRUE)
        ELSE IF bytes[i] = "{"
        THEN ParseMembers(bytes, i + 1, Json("obj", <<>>, <<>>, <<>>), TRUE)
        ELSE IF word(JsonNull) THEN Literal(JsonNull)
        ELSE IF word(JsonBool(TRUE)) THEN Literal(JsonBool(TRUE))
        ELSE IF word(JsonBool(FALSE)) THEN Literal(JsonBool(FALSE))
        ELSE LET e == DigitsEnd(i)
             IN  IF e > i /\ (bytes[i] # "0" \/ e = i + 1)
                 THEN Literal(SubSeq(bytes, i, e - 1))
                 ELSE Failed

\* the parser inside an array, after its opening bracket or a comma
ParseElements(bytes, i0, acc, first) ==
    LET i == SkipWhitespace(bytes, i0)
        At(j, c) == j <= Len(bytes) /\ bytes[j] = c
        Failed == [ok |-> FALSE, v |-> Json("lit", <<>>, <<>>, <<>>), i |-> 0]
    IN  IF first /\ At(i, "]")
        THEN [ok |-> TRUE, v |-> Json("arr", <<>>, <<>>, acc), i |-> i + 1]
        ELSE LET r == ParseValue(bytes, i)
                 j == SkipWhitespace(bytes, r.i)
             IN  IF ~r.ok THEN Failed
                 ELSE IF At(j, ",") THEN ParseElements(bytes, j + 1, Append(acc, r.v), FALSE)
                 ELSE IF At(j, "]")
                 THEN [ok |-> TRUE, v |-> Json("arr", <<>>, <<>>, Append(acc, r.v)),
                       i |-> j + 1]
                 ELSE Failed

\* the parser inside an object, after its opening brace or a comma
ParseMembers(bytes, i0, acc, first) ==
    LET i == SkipWhitespace(bytes, i0)
        At(j, c) == j <= Len(bytes) /\ bytes[j] = c
        Failed == [ok |-> FALSE, v |-> Json("lit", <<>>, <<>>, <<>>), i |-> 0]
    IN  IF first /\ At(i, "}") THEN [ok |-> TRUE, v |-> acc, i |-> i + 1]
        ELSE IF ~At(i, Quote) THEN Failed
        ELSE LET key == ParseString(bytes, i + 1, <<>>)
                 c == SkipWhitespace(bytes, key.i)
                 r == ParseValue(bytes, c + 1)
                 j == SkipWhitespace(bytes, r.i)
                 put == IF \E m \in 1..Len(acc.k) : acc.k[m] = key.v.s
                        THEN Json("obj", <<>>, acc.k,
                                  [m \in 1..Len(acc.k) |->
                                      IF acc.k[m] = key.v.s THEN r.v ELSE acc.a[m]])
                        ELSE Json("obj", <<>>, Append(acc.k, key.v.s), Append(acc.a, r.v))
             IN  IF ~key.ok \/ ~At(c, ":") \/ ~r.ok THEN Failed
                 ELSE IF At(j, ",") THEN ParseMembers(bytes, j + 1, put, FALSE)
                 ELSE IF At(j, "}") THEN [ok |-> TRUE, v |-> put, i |-> j + 1]
                 ELSE Failed

\* simd_json::from_slice::<OwnedValue>: the value a JSON text denotes, with
\* whitespace allowed around every token, or a failure
from_slice(bytes) ==
    LET top == ParseValue(bytes, 1)
    IN  IF top.ok /\ SkipWhitespace(bytes, top.i) > Len(bytes) THEN Some(top.v) ELSE None

(* ------------------------------- state -------------------------------- *)

VARIABLES
    tlsFeature,     \* the build has the "tls" cargo feature
    engine,         \* Engine { use_tls, store, username, password }
    keyspace,       \* PersistentKeyspace { name, persistent, distributed }
    op,             \* the public operation that was called
    opResult,       \* what the public operation returned to its caller
    pc,             \* position of the send_data call
    query,          \* send_data's query argument
    callback,       \* send_data's callback argument is Some
    stop_event,     \* send_data's stop_event argument is Some
    use_tls,        \* send_data's use_tls argument
    port,           \* send_data's port argument
    tls_stream,     \* the TLS stream is Some
    connection,     \* "None", "Plain" or "Tls"
    is_subscription,
    buf,            \* the accumulation buffer
    chunksRead,     \* every chunk a read returned, in order
    calls,          \* every buffer passed to the callback, in order
    io,             \* how many times each I/O operation was issued
    nWritten,       \* request bytes handed to the socket
    exit,           \* how the read loop ended
    sdResult,       \* what send_data returned
    watch,          \* the stop channel: value, version, sender alive
    rxVersion,      \* the version the receiver has seen
    calledWhileSet, \* a callback invocation began while the token was true
    lastRead,       \* outcome of the latest read
    args,           \* the arguments the public operation was called with
    request,        \* the StoreRequestClient the operation built, if any
    tasks,          \* the send_data calls that run concurrently
    conns,          \* every socket opened by those calls: owner, bytes, requests
    log,            \* the I/O operations and callback invocations, in order
    resp            \* a transport result handed to parse_response, and what came of it

vars == <<tlsFeature, engine, keyspace, op, opResult, pc, query, callback,
          stop_event, use_tls, port, tls_stream, connection, is_subscription, buf,
          chunksRead, calls, io, nWritten, exit, sdResult, watch, rxVersion,
          calledWhileSet, lastRead, args, request, tasks, conns, log, resp>>

\* largest u16
U16_MAX == 65535

\* the engine's port
Ports == {21210, U16_MAX}

\* strings the caller may pass
K == <<"k">>

Names == {K, SubscribeToken}

\* the bytes a server may send
ServerBytes == {"a", NL}

\* the non-empty chunks of at most n bytes
Chunks(n) ==
    UNION {[1..k -> ServerBytes] : k \in 1..n}

\* results
Pending == [kind |-> "Pending", some |-> FALSE, bytes |-> <<>>, msg |-> ""]

OkNone == [kind |-> "Ok", some |-> FALSE, bytes |-> <<>>, msg |-> ""]

OkSome(b) == [kind |-> "Ok", some |-> TRUE, bytes |-> b, msg |-> ""]

\* Ok(stop_tx) of subscribe
OkSender == [kind |-> "Ok", some |-> TRUE, bytes |-> <<>>, msg |-> "stop_tx"]

\* every error of send_data is MontycatClientError::ClientEngineError(msg)
ClientEngineError(m) == [kind |-> "ClientEngineError", some |-> FALSE, bytes |-> <<>>, msg |-> m]

\* the validation errors, which carry no message
ClientError(k) == [kind |-> k, some |-> FALSE, bytes |-> <<>>, msg |-> ""]

\* the call did not return: it panicked
Panic == [kind |-> "Panic", some |-> FALSE, bytes |-> <<>>, msg |-> "attempt to add with overflow"]

IsOk(r) == r.kind = "Ok"

IsErr(r) == r.kind \notin {"Ok", "Pending"}

RECURSIVE Concat(_)
Concat(ss) == IF ss = <<>> THEN <<>> ELSE Head(ss) \o Concat(Tail(ss))

\* bytes the server may still send
BytesLeft == MaxBytes - Len(Concat(chunksRead))

NoIo == [connects |-> 0, handshakes |-> 0, writes |-> 0, flushes |-> 0,
         reads |-> 0, shutdowns |-> 0]

\* the arguments of the public operations, each absent or false
NoArgs ==
    [key |-> None, custom_key |-> None, with_pointers |-> FALSE,
     key_included |-> FALSE, pointers_metadata |-> FALSE,
     bulk_keys |-> None, bulk_custom_keys |-> None, limit |-> None,
     volumes |-> None, latest_volume |-> None]

\* a send_data call that has not been made yet
IdleTask ==
    [pc |-> "idle", query |-> <<>>, callback |-> FALSE, conn |-> 0,
     buf |-> <<>>, calls |-> <<>>, active |-> 0, stop |-> FALSE,
     result |-> Pending]

\* no transport result has been handed to parse_response
NoResp ==
    [pc |-> "none", v |-> Json("lit", JsonNull, <<>>, <<>>), shape |-> "none",
     status |-> FALSE, error |-> None, input |-> Pending,
     out |-> [result |-> Pending, status |-> FALSE,
              payload |-> Json("lit", JsonNull, <<>>, <<>>), error |-> None],
     n1 |-> Json("lit", JsonNull, <<>>, <<>>),
     n2 |-> Json("lit", JsonNull, <<>>, <<>>),
     s1 |-> Json("lit", JsonNull, <<>>, <<>>)]

Init ==
    /\ tlsFeature \in BOOLEAN
    /\ engine \in [use_tls : BOOLEAN, store : {None, Some(K)},
                   username : {<<"u">>}, password : {<<"p">>}, port : Ports]
    /\ keyspace = [name |-> <<"n">>, persistent |-> TRUE, distributed |-> FALSE]
    /\ op = "none"
    /\ opResult = Pending
    /\ pc = "idle"
    /\ query = <<>>
    /\ callback = FALSE
    /\ stop_event = FALSE
    /\ use_tls = FALSE
    /\ port = 0
    /\ tls_stream = FALSE
    /\ connection = "None"
    /\ is_subscription = FALSE
    /\ buf = <<>>
    /\ chunksRead = <<>>
    /\ calls = <<>>
    /\ io = NoIo
    /\ nWritten = 0
    /\ exit = "none"
    /\ sdResult = Pending
    /\ watch = [value |-> FALSE, version |-> 0, senderAlive |-> FALSE]
    /\ rxVersion = 0
    /\ calledWhileSet = FALSE
    /\ lastRead = "none"
    /\ args = NoArgs
    /\ request = None
    /\ tasks = <<IdleTask, IdleTask>>   \* one record for each of the calls
    /\ conns = <<>>
    /\ log = <<>>
    /\ resp = NoResp

(* ------------------------- the public operations ---------------------- *)

sdVars == <<tls_stream, connection, is_subscription, buf, chunksRead, calls,
            io, nWritten, exit, sdResult, rxVersion, calledWhileSet, lastRead,
            log>>

\* variant: the error is noticed but send_data is called all the same
Reject_late(name, e) ==
    /\ op' = name
    /\ opResult' = e
    /\ pc' = "connect"
    /\ request' = None
    /\ UNCHANGED <<query, callback, stop_event, use_tls, port, watch>>

\* the operation returns error e before any call of send_data
Reject(name, e) ==
    /\ op' = name
    /\ opResult' = e
    /\ pc' = "done"
    /\ request' = None
    /\ UNCHANGED <<query, callback, stop_event, use_tls, port, watch>>

\* the operation calls send_data(host, port, q, None, None, use_tls)
CallSendData(name, q) ==
    /\ op' = name
    /\ query' = q
    /\ callback' = FALSE
    /\ stop_event' = FALSE
    /\ use_tls' = engine.use_tls
    /\ port' = engine.port
    /\ pc' = "connect"
    /\ UNCHANGED <<opResult, watch>>

\* the operation encodes the store request r and calls send_data with it
SendStoreCommand(name, r) ==
    /\ CallSendData(name, byte_down(new_store_command(r)))
    /\ request' = Some(r)

\* Engine::create_store
create_store ==
    /\ pc = "idle"
    /\ args' = NoArgs
    /\ IF engine.store.some
       THEN /\ CallSendData("create_store",
                    byte_down(new_raw_command(
                        <<Cmd_create_store, F_store, engine.store.v>>,
                        <<engine.username, engine.password>>)))
            /\ request' = None
       ELSE Reject("create_store", ClientError("ClientStoreNotSet"))
    /\ UNCHANGED <<tlsFeature, engine, keyspace, tasks, conns, resp>>
    /\ UNCHANGED sdVars

\* the key get_value puts in the request
get_value_key(key, custom_key) ==
    IF custom_key.some THEN convert_custom_key(custom_key.v)
    ELSE IF key.some THEN key.v ELSE <<>>

\* Keyspace::get_value
get_value(key, custom_key, with_pointers, key_included, with_pointers_metadata) ==
    /\ pc = "idle"
    /\ args' = [NoArgs EXCEPT !.key = key, !.custom_key = custom_key,
                              !.with_pointers = with_pointers,
                              !.key_included = key_included,
                              !.pointers_metadata = with_pointers_metadata]
    /\ IF ~key.some /\ ~custom_key.some
       THEN Reject("get_value", ClientError("ClientSelectedBothKeyAndCustomKey"))
       ELSE IF with_pointers_metadata /\ with_pointers
       THEN Reject("get_value", ClientError("ClientSelectedBothPointersValueAndMetadata"))
       ELSE IF ~engine.store.some
       THEN Reject("get_value", ClientError("ClientStoreNotSet"))
       ELSE SendStoreCommand("get_value",
                [StoreRequestDefault EXCEPT
                    !.key = Some(get_value_key(key, custom_key)),
                    !.keyspace = keyspace.name,
                    !.store = engine.store.v,
                    !.persistent = keyspace.persistent,
                    !.distributed = keyspace.distributed,
                    !.command = Cmd_get_value,
                    !.with_pointers = with_pointers,
                    !.key_included = key_included,
                    !.pointers_metadata = with_pointers_metadata,
                    !.username = engine.username,
                    !.password = engine.password])
    /\ UNCHANGED <<tlsFeature, engine, keyspace, tasks, conns, resp>>
    /\ UNCHANGED sdVars

\* key.or(custom_key)
subscribe_key(key, custom_key) == IF key.some THEN key ELSE custom_key

\* PersistentKeyspace::subscribe: the stop channel is created, the request is
\* built, send_data is spawned on a background task and the sender is returned.
\* engine.port + 1 is u16 arithmetic: on overflow it panics in a build with
\* overflow checks and wraps otherwise.
subscribe(key, custom_key, overflow_panics) ==
    /\ pc = "idle"
    /\ args' = [NoArgs EXCEPT !.key = key, !.custom_key = custom_key]
    /\ IF ~engine.store.some
       THEN Reject("subscribe", ClientError("ClientStoreNotSet"))
       ELSE IF key.some /\ custom_key.some
       THEN Reject("subscribe", ClientError("ClientSelectedBothKeyAndCustomKey"))
       ELSE IF engine.port + 1 > U16_MAX /\ overflow_panics
       THEN Reject("subscribe", Panic)
       ELSE /\ op' = "subscribe"
            /\ port' = (engine.port + 1) % (U16_MAX + 1)
            /\ query' = fulfil_subscription_request(engine.store.v, keyspace.name,
                            subscribe_key(key, custom_key),
                            engine.username, engine.password)
            /\ callback' = TRUE
            /\ stop_event' = TRUE
            /\ use_tls' = engine.use_tls
            /\ watch' = [value |-> FALSE, version |-> 0, senderAlive |-> TRUE]
            /\ opResult' = OkSender
            /\ request' = None
            /\ pc' = "connect"
    /\ UNCHANGED <<tlsFeature, engine, keyspace, tasks, conns, resp>>
    /\ UNCHANGED sdVars

\* the fields every store operation fills in from the engine and keyspace
BaseRequest(command) ==
    [StoreRequestDefault EXCEPT
        !.keyspace = keyspace.name,
        !.store = engine.store.v,
        !.persistent = keyspace.persistent,
        !.distributed = keyspace.distributed,
        !.command = command,
        !.username = engine.username,
        !.password = engine.password]

\* Keyspace::delete_key
delete_key(key, custom_key) ==
    /\ pc = "idle"
    /\ args' = [NoArgs EXCEPT !.key = key, !.custom_key = custom_key]
    /\ IF key.some /\ custom_key.some
       THEN Reject("delete_key", ClientError("ClientSelectedBothKeyAndCustomKey"))
       ELSE IF ~key.some /\ ~custom_key.some
       THEN Reject("delete_key", ClientError("ClientNoValidInputProvided"))
       ELSE IF ~engine.store.some
       THEN Reject("delete_key", ClientError("ClientStoreNotSet"))
       ELSE SendStoreCommand("delete_key",
                [BaseRequest(<<"d", "e", "l", "e", "t", "e", "_", "k", "e", "y">>) EXCEPT
                    !.key = Some(get_value_key(key, custom_key))])
    /\ UNCHANGED <<tlsFeature, engine, keyspace, tasks, conns, resp>>
    /\ UNCHANGED sdVars

\* Keyspace::list_all_depending_keys: key is a &str, empty when not given
list_all_depending_keys(key, custom_key) ==
    /\ pc = "idle"
    /\ args' = [NoArgs EXCEPT !.key = IF key = <<>> THEN None ELSE Some(key),
                              !.custom_key = custom_key]
    /\ IF key # <<>> /\ custom_key.some
       THEN Reject("list_all_depending_keys",
                ClientError("ClientSelectedBothKeyAndCustomKey"))
       ELSE IF ~engine.store.some
       THEN Reject("list_all_depending_keys", ClientError("ClientStoreNotSet"))
       ELSE SendStoreCommand("list_all_depending_keys",
                [BaseRequest(<<"l", "i", "s", "t", "_", "a", "l", "l", "_", "d", "e", "p", "e", "n", "d", "i", "n", "g", "_", "k", "e", "y", "s">>) EXCEPT
                    !.key = Some(IF custom_key.some
                                 THEN convert_custom_key(custom_key.v) ELSE key)])
    /\ UNCHANGED <<tlsFeature, engine, keyspace, tasks, conns, resp>>
    /\ UNCHANGED sdVars

\* PersistentKeyspace::update_value, the value being the string "v":
\* process_json_value gives its JSON text
update_value(key, custom_key) ==
    /\ pc = "idle"
    /\ args' = [NoArgs EXCEPT !.key = key, !.custom_key = custom_key]
    /\ IF (~key.some /\ ~custom_key.some) \/ (key.some /\ custom_key.some)
       THEN Reject("update_value", ClientError("ClientNoValidInputProvided"))
       ELSE IF ~engine.store.some
       THEN Reject("update_value", ClientError("ClientStoreNotSet"))
       ELSE SendStoreCommand("update_value",
                [BaseRequest(<<"u", "p", "d", "a", "t", "e", "_", "v", "a", "l", "u", "e">>) EXCEPT
                    !.key = Some(subscribe_key(key, custom_key).v),
                    !.value = JsonString(<<"v">>)])
    /\ UNCHANGED <<tlsFeature, engine, keyspace, tasks, conns, resp>>
    /\ UNCHANGED sdVars

\* merge_keys: the plain keys followed by the hashed custom keys, or None
\* for Err(ClientNoValidInputProvided)
merge_keys(bulk_keys, bulk_custom_keys) ==
    IF ~bulk_keys.some /\ ~bulk_custom_keys.some THEN None
    ELSE LET plain == IF bulk_keys.some THEN bulk_keys.v ELSE <<>>
             custom == IF bulk_custom_keys.some THEN bulk_custom_keys.v ELSE <<>>
             keys_merged == plain \o [i \in 1..Len(custom) |-> convert_custom_key(custom[i])]
         IN  IF keys_merged = <<>> THEN None ELSE Some(keys_merged)

\* Limit::to_map of the given limit or of default_limit(): a HashMap, whose
\* entries the serializer may visit in either order
to_map(limit) ==
    LET lim == IF limit.some THEN limit.v ELSE [start |-> 0, stop |-> 0]
        start == <<<<"s", "t", "a", "r", "t">>, lim.start>>
        stop == <<<<"s", "t", "o", "p">>, lim.stop>>
    IN  {<<start, stop>>, <<stop, start>>}

\* the message of get_bulk's error for a wrong number of selectors
MultipleOptions ==
    "Multiple conflicting options provided. Please provide exactly one of the following: keys, volumes, or latest volume."

\* ClientGenericError(msg)
ClientGenericError(m) == [ClientError("ClientGenericError") EXCEPT !.msg = m]

\* Keyspace::get_bulk
get_bulk(bulk_keys, bulk_custom_keys, with_pointers, key_included, with_pointers_metadata, limit, volumes, latest_volume) ==
    /\ pc = "idle"
    /\ args' = [NoArgs EXCEPT !.bulk_keys = bulk_keys,
                              !.bulk_custom_keys = bulk_custom_keys,
                              !.with_pointers = with_pointers,
                              !.key_included = key_included,
                              !.pointers_metadata = with_pointers_metadata,
                              !.limit = limit, !.volumes = volumes,
                              !.latest_volume = latest_volume]
    /\ LET processed_keys == merge_keys(bulk_keys, bulk_custom_keys)
           selected_options ==
               (IF processed_keys.v # <<>> THEN 1 ELSE 0)
               + (IF volumes.some /\ volumes.v # <<>> THEN 1 ELSE 0)
               + (IF latest_volume.some /\ latest_volume.v THEN 1 ELSE 0)
       IN  IF with_pointers /\ with_pointers_metadata
           THEN Reject("get_bulk",
                    ClientError("ClientSelectedBothPointersValueAndMetadata"))
           ELSE IF ~processed_keys.some
           THEN Reject("get_bulk", ClientError("ClientNoValidInputProvided"))
           ELSE IF selected_options # 1
           THEN Reject("get_bulk", ClientGenericError(MultipleOptions))
           ELSE IF ~engine.store.some
           THEN Reject("get_bulk", ClientError("ClientStoreNotSet"))
           ELSE IF limit.some /\ limit.v.start > limit.v.stop
           THEN Reject("get_bulk", ClientGenericError("Limit start cannot be greater than stop"))
           ELSE \E limit_map \in to_map(limit) :
                   SendStoreCommand("get_bulk",
                       [BaseRequest(<<"g", "e", "t", "_", "b", "u", "l", "k">>) EXCEPT
                           !.bulk_keys = processed_keys.v,
                           !.limit_output = limit_map,
                           !.with_pointers = with_pointers,
                           !.key_included = key_included,
                           !.pointers_metadata = with_pointers_metadata])
    /\ UNCHANGED <<tlsFeature, engine, keyspace, tasks, conns, resp>>
    /\ UNCHANGED sdVars

\* Keyspace::lookup_values_where, the search criteria being the string "v"
\* and no schema given
lookup_values_where(limit, with_pointers, key_included, pointers_metadata) ==
    /\ pc = "idle"
    /\ args' = [NoArgs EXCEPT !.limit = limit,
                              !.with_pointers = with_pointers,
                              !.key_included = key_included,
                              !.pointers_metadata = pointers_metadata]
    /\ IF ~engine.store.some
       THEN Reject("lookup_values_where", ClientError("ClientStoreNotSet"))
       ELSE IF limit.some /\ limit.v.start > limit.v.stop
       THEN Reject("lookup_values_where",
                ClientGenericError("Limit start cannot be greater than stop"))
       ELSE \E limit_map \in to_map(limit) :
               SendStoreCommand("lookup_values_where",
                   [BaseRequest(<<"l", "o", "o", "k", "u", "p", "_", "v", "a", "l", "u", "e", "s">>) EXCEPT
                       !.with_pointers = with_pointers,
                       !.key_included = key_included,
                       !.pointers_metadata = pointers_metadata,
                       !.limit_output = limit_map,
                       !.search_criteria = JsonString(<<"v">>)])
    /\ UNCHANGED <<tlsFeature, engine, keyspace, tasks, conns, resp>>
    /\ UNCHANGED sdVars

(* ------------------------------ send_data ----------------------------- *)

opVars == <<tlsFeature, engine, keyspace, op, query, callback, stop_event,
            use_tls, port, args, request, tasks, conns, resp>>

\* variant: the result of the spawned send_data reaches subscribe's caller
Return_reported(r) ==
    /\ pc' = "done"
    /\ sdResult' = r
    /\ opResult' = r

\* send_data returns r; a standard operation hands r on to its caller
\* (`.await?` then Ok(response)), the spawned subscription task drops it
Return(r) ==
    /\ pc' = "done"
    /\ sdResult' = r
    /\ opResult' = IF op = "subscribe" THEN opResult ELSE r

Step(next) ==
    /\ pc' = next
    /\ UNCHANGED <<sdResult, opResult>>

Bump(f) == [io EXCEPT ![f] = @ + 1]

\* the operations ev, in order, have been awaited and the last one returned
\* Ok (ok) or Err
Logged(evs, ok) ==
    log' = log \o [i \in 1..Len(evs) |-> [ev |-> evs[i], ok |-> (i < Len(evs)) \/ ok]]

\* variant: a failed operation is answered by connecting again
Propagate_retry(e) == Step("connect")

\* `.map_err(..)?` and `return Err(..)`: the error is returned at once
Propagate(e) == Return(e)

\* the error of a failed TcpStream::connect
ConnectError == ClientEngineError("connect failed")

\* TcpStream::connect((host, port))
Connect ==
    /\ pc = "connect"
    /\ io' = Bump("connects")
    /\ \E ok \in BOOLEAN :
          /\ Logged(<<"connect">>, ok)
          /\ IF ok THEN Step("tls") ELSE Propagate(ConnectError)
    /\ UNCHANGED opVars
    /\ UNCHANGED <<tls_stream, connection, is_subscription, buf, chunksRead,
                   calls, nWritten, exit, watch, rxVersion,
                   calledWhileSet, lastRead>>

\* what the `if use_tls` block does: "skip" when use_tls is false, the
\* configuration error in a build without the tls feature, otherwise the
\* outcome of the server name conversion and of the handshake
TlsOutcomes_always(useTls, feature) == {"ok", "failed", "timeout"}

TlsOutcomes(useTls, feature) ==
    IF ~useTls THEN {"skip"}
    ELSE IF ~feature THEN {"not_enabled"}
    ELSE {"ok", "bad_name", "failed", "timeout"}

TlsError(o) ==
    IF o = "not_enabled" THEN ClientEngineError("TLS feature not enabled")
    ELSE IF o = "bad_name" THEN ClientEngineError("invalid dns name")
    ELSE IF o = "failed" THEN ClientEngineError("TLS handshake failed")
    ELSE ClientEngineError("TLS handshake timed out")

\* the `if use_tls` block
TlsSetup ==
    /\ pc = "tls"
    /\ \E o \in TlsOutcomes(use_tls, tlsFeature) :
          /\ io' = IF o \in {"ok", "failed", "timeout"} THEN Bump("handshakes") ELSE io
          /\ tls_stream' = (o = "ok")
          /\ Logged(IF o \in {"ok", "failed", "timeout"} THEN <<"handshake">> ELSE <<>>,
                    o = "ok")
          /\ IF o \in {"skip", "ok"} THEN Step("wrap") ELSE Propagate(TlsError(o))
    /\ UNCHANGED opVars
    /\ UNCHANGED <<connection, is_subscription, buf, chunksRead, calls,
                   nWritten, exit, watch, rxVersion,
                   calledWhileSet, lastRead>>

\* the Connection the build wraps the stream in: with the tls feature only
\* the Tls variant exists and it needs the TLS stream
WrapConnection(feature, tls) ==
    IF feature THEN (IF tls THEN "Tls" ELSE "None") ELSE "Plain"

\* `let connection = ...` and connection.split()
MakeConnection ==
    /\ pc = "wrap"
    /\ connection' = WrapConnection(tlsFeature, tls_stream)
    /\ UNCHANGED log
    /\ IF connection' = "None"
       THEN Propagate(ClientEngineError("TLS stream not initialized"))
       ELSE Step("write")
    /\ UNCHANGED opVars
    /\ UNCHANGED <<tls_stream, is_subscription, buf, chunksRead, calls, io,
                   nWritten, exit, watch, rxVersion,
                   calledWhileSet, lastRead>>

\* writer.write_all(query)
WriteAll ==
    /\ pc = "write"
    /\ io' = Bump("writes")
    /\ \/ /\ nWritten' = Len(query)
          /\ Logged(<<"write">>, TRUE)
          /\ Step("flush")
       \/ /\ nWritten' \in {0, Len(query) - 1}
          /\ Logged(<<"write">>, FALSE)
          /\ Propagate(ClientEngineError("write failed"))
    /\ UNCHANGED opVars
    /\ UNCHANGED <<tls_stream, connection, is_subscription, buf, chunksRead,
                   calls, exit, watch, rxVersion,
                   calledWhileSet, lastRead>>

\* writer.flush()
Flush ==
    /\ pc = "flush"
    /\ io' = Bump("flushes")
    /\ \E ok \in BOOLEAN :
          /\ Logged(<<"flush">>, ok)
          /\ IF ok THEN Step("mode") ELSE Propagate(ClientEngineError("flush failed"))
    /\ UNCHANGED opVars
    /\ UNCHANGED <<tls_stream, connection, is_subscription, buf, chunksRead,
                   calls, nWritten, exit, watch, rxVersion,
                   calledWhileSet, lastRead>>

\* query.windows(9).any(|w| w == b"subscribe")
IsSubscription(q) == ContainsWindow(q, SubscribeToken)

\* `let mut buf = vec![]`, is_subscription and the branch on it
SelectMode ==
    /\ pc = "mode"
    /\ buf' = <<>>
    /\ is_subscription' = IsSubscription(query)
    /\ Step(IF is_subscription' THEN "s_check" ELSE "o_read")
    /\ UNCHANGED log
    /\ UNCHANGED opVars
    /\ UNCHANGED <<tls_stream, connection, chunksRead, calls, io, nWritten,
                   exit, watch, rxVersion,
                   calledWhileSet, lastRead>>

\* Receiver::has_changed(): Err once the sender is gone (a release of the
\* channel may still report an unseen value then), else whether the version
\* differs from the one the receiver has seen
HasChanged(w, seen) ==
    IF ~w.senderAlive
    THEN {"Err"} \cup (IF w.version # seen THEN {"OkTrue"} ELSE {})
    ELSE IF w.version # seen THEN {"OkTrue"} ELSE {"OkFalse"}

\* variant: the loop never looks at the stop channel
StopObserved_never(present, hc, value) == FALSE

\* variant: any change of the channel ends the loop, whatever the value
StopObserved_anyChange(present, hc, value) == present /\ hc = "OkTrue"

\* `if let Ok(true) = stop.has_changed() && *stop.borrow()`
StopObserved(present, hc, value) == present /\ hc = "OkTrue" /\ value

\* the stop check at the top of the streaming loop
StreamCheckStop ==
    /\ pc = "s_check"
    /\ \E hc \in HasChanged(watch, rxVersion) :
          IF StopObserved(stop_event, hc, watch.value)
          THEN /\ exit' = "cancel"
               /\ Step("shutdown")
          ELSE /\ exit' = exit
               /\ Step("s_read")
    /\ UNCHANGED log
    /\ UNCHANGED opVars
    /\ UNCHANGED <<tls_stream, connection, is_subscription, buf, chunksRead,
                   calls, io, nWritten, watch, rxVersion,
                   calledWhileSet, lastRead>>

\* variant: the callback waits for a buffer that ends with the newline
CallbackDue_atEnd(b) == b # <<>> /\ b[Len(b)] = NL

\* the callback is invoked after a read that left buffer b
CallbackDue(b) == ContainsNewline(b)

\* variant: the buffer is not cleared after the callback
StreamBufAfter_keep(b) == b

\* the buffer after the newline test of the streaming loop
StreamBufAfter(b) == IF CallbackDue(b) THEN <<>> ELSE b

\* reader.read(&mut chunk) of the streaming loop and what follows it
StreamRead ==
    /\ pc = "s_read"
    /\ io' = Bump("reads")
    /\ \/ /\ lastRead' = "error"
          /\ Logged(<<"read">>, FALSE)
          /\ Propagate(ClientEngineError("read failed"))
          /\ UNCHANGED <<buf, chunksRead, calls, exit, calledWhileSet>>
       \/ /\ lastRead' = "eof"
          /\ exit' = "eof"
          /\ Logged(<<"read">>, TRUE)
          /\ Step("shutdown")
          /\ UNCHANGED <<buf, chunksRead, calls, calledWhileSet>>
       \/ \E chunk \in Chunks(BytesLeft) :
             /\ Len(chunk) <= CHUNK_SIZE
             /\ lastRead' = "data"
             /\ chunksRead' = Append(chunksRead, chunk)
             /\ LET b == buf \o chunk
                IN  /\ calls' = IF CallbackDue(b) /\ callback
                                THEN Append(calls, b) ELSE calls
                    /\ calledWhileSet' = IF CallbackDue(b) /\ callback
                                         THEN calledWhileSet \/ watch.value
                                         ELSE calledWhileSet
                    /\ buf' = StreamBufAfter(b)
                    /\ Logged(IF CallbackDue(b) /\ callback
                              THEN <<"read", "callback">> ELSE <<"read">>, TRUE)
             /\ Step("s_check")
             /\ UNCHANGED exit
    /\ UNCHANGED opVars
    /\ UNCHANGED <<tls_stream, connection, is_subscription, nWritten, watch,
                   rxVersion>>

\* variant: the one-shot loop stops after the first read that delivered data
OneShotStops_anyData(b) == b # <<>>

\* variant: the loop also stops when the buffer has reached a size limit
OneShotStops_sizeLimit(b) == ContainsNewline(b) \/ Len(b) >= 2

\* the one-shot loop stops after a read that left buffer b
OneShotStops(b) == ContainsNewline(b)

\* variant: a timed-out read ends the loop like end-of-stream
ReadTimedOut_silent(b) == OkSome(b)

\* what the call returns when the 120 s timeout of a read elapses, the
\* buffer holding b: the Elapsed error, mapped and propagated by `?`
ReadTimedOut(b) == ClientEngineError("deadline has elapsed")

\* timeout(120 s, reader.read(&mut chunk)) of the one-shot loop
OneShotRead ==
    /\ pc = "o_read"
    /\ io' = Bump("reads")
    /\ \/ /\ lastRead' = "timeout"
          /\ Logged(<<"read">>, FALSE)
          /\ Propagate(ReadTimedOut(buf))
          /\ UNCHANGED <<buf, chunksRead, exit>>
       \/ /\ lastRead' = "error"
          /\ Logged(<<"read">>, FALSE)
          /\ Propagate(ClientEngineError("read failed"))
          /\ UNCHANGED <<buf, chunksRead, exit>>
       \/ /\ lastRead' = "eof"
          /\ exit' = "eof"
          /\ Logged(<<"read">>, TRUE)
          /\ Step("shutdown")
          /\ UNCHANGED <<buf, chunksRead>>
       \/ \E chunk \in Chunks(BytesLeft) :
             /\ Len(chunk) <= CHUNK_SIZE
             /\ lastRead' = "data"
             /\ chunksRead' = Append(chunksRead, chunk)
             /\ buf' = buf \o chunk
             /\ Logged(<<"read">>, TRUE)
             /\ IF OneShotStops(buf')
                THEN exit' = "newline" /\ Step("shutdown")
                ELSE exit' = exit /\ Step("o_read")
    /\ UNCHANGED opVars
    /\ UNCHANGED <<tls_stream, connection, is_subscription, calls, nWritten,
                   watch, rxVersion, calledWhileSet>>

\* variant: an empty buffer is reported as None
FinalResult_noneIfEmpty(subscription, b) ==
    IF subscription \/ b = <<>> THEN OkNone ELSE OkSome(b)

\* variant: a streaming call returns the bytes left in its buffer
FinalResult_leftover(subscription, b) ==
    IF subscription /\ b = <<>> THEN OkNone ELSE OkSome(b)

\* the value returned after a successful shutdown
FinalResult(subscription, b) == IF subscription THEN OkNone ELSE OkSome(b)

\* writer.shutdown() and the return value
Shutdown ==
    /\ pc = "shutdown"
    /\ io' = Bump("shutdowns")
    /\ \E ok \in BOOLEAN :
          /\ Logged(<<"shutdown">>, ok)
          /\ IF ok THEN Return(FinalResult(is_subscription, buf))
             ELSE Propagate(ClientEngineError("shutdown failed"))
    /\ UNCHANGED opVars
    /\ UNCHANGED <<tls_stream, connection, is_subscription, buf, chunksRead,
                   calls, nWritten, exit, watch, rxVersion,
                   calledWhileSet, lastRead>>

(* ------------------------ the subscription's owner -------------------- *)

\* the receiver lives in the spawned task until send_data returns
ReceiverAlive == op = "subscribe" /\ pc # "done"

\* variant: a send of true wakes the pending read and ends the loop
AfterSend_interrupts(p, v) == IF p = "s_read" /\ v THEN "shutdown" ELSE p

\* where send_data stands after the owner's send of v: the read is awaited
\* on its own, not raced against the stop channel, so nothing moves
AfterSend(p, v) == p

\* stop_tx.send(v): fails, leaving the value, when the receiver is gone
OwnerSend(v) ==
    /\ op = "subscribe" /\ IsOk(opResult)
    /\ watch.senderAlive
    /\ watch.version < MaxSends
    /\ watch' = IF ReceiverAlive
                THEN [watch EXCEPT !.value = v, !.version = @ + 1]
                ELSE watch
    /\ pc' = AfterSend(pc, v)
    /\ UNCHANGED opVars
    /\ UNCHANGED opResult
    /\ UNCHANGED sdVars

\* the owner drops the sender
OwnerDrop ==
    /\ op = "subscribe" /\ IsOk(opResult)
    /\ watch.senderAlive
    /\ watch' = [watch EXCEPT !.senderAlive = FALSE]
    /\ UNCHANGED opVars
    /\ UNCHANGED <<opResult, pc>>
    /\ UNCHANGED sdVars

(* ---------------------------- specification --------------------------- *)

OptNames == {None} \cup {Some(n) : n \in Names}

Next ==
    \/ create_store
    \/ \E key \in OptNames, custom_key \in {None, Some(K)},
          with_pointers \in BOOLEAN, key_included \in BOOLEAN,
          with_pointers_metadata \in BOOLEAN :
          get_value(key, custom_key, with_pointers, key_included, with_pointers_metadata)
    \/ \E key \in OptNames, custom_key \in {None, Some(K)}, overflow_panics \in BOOLEAN :
          subscribe(key, custom_key, overflow_panics)
    \/ Connect
    \/ TlsSetup
    \/ MakeConnection
    \/ WriteAll
    \/ Flush
    \/ SelectMode
    \/ StreamCheckStop
    \/ StreamRead
    \/ OneShotRead
    \/ Shutdown
    \/ \E v \in BOOLEAN : OwnerSend(v)
    \/ OwnerDrop

Spec == Init /\ [][Next]_vars

\* every awaited operation of send_data completes or fails in the end, and
\* the runtime keeps polling the task
FairSpec ==
    /\ Spec
    /\ WF_vars(Connect) /\ WF_vars(TlsSetup) /\ WF_vars(MakeConnection)
    /\ WF_vars(WriteAll) /\ WF_vars(Flush) /\ WF_vars(SelectMode)
    /\ WF_vars(StreamCheckStop) /\ WF_vars(StreamRead)
    /\ WF_vars(OneShotRead) /\ WF_vars(Shutdown)

(* ----------------------- the operations on their own ------------------ *)

OptKeys == {None, Some(K)}

\* a range with start <= stop, one with start > stop, and no limit
Limits == {None, Some([start |-> 0, stop |-> 1]), Some([start |-> 1, stop |-> 0])}

OptLists == {None, Some(<<>>), Some(<<K>>)}

\* one call of any public operation with any arguments, up to the point where
\* it returns an error or calls send_data
OpsNext ==
    \/ create_store
    \/ \E key \in OptKeys, custom_key \in OptKeys,
          with_pointers \in BOOLEAN, key_included \in BOOLEAN,
          with_pointers_metadata \in BOOLEAN :
          get_value(key, custom_key, with_pointers, key_included, with_pointers_metadata)
    \/ \E key \in OptKeys, custom_key \in OptKeys, overflow_panics \in BOOLEAN :
          subscribe(key, custom_key, overflow_panics)
    \/ \E key \in OptKeys, custom_key \in OptKeys : delete_key(key, custom_key)
    \/ \E key \in {<<>>, K}, custom_key \in OptKeys :
          list_all_depending_keys(key, custom_key)
    \/ \E key \in OptKeys, custom_key \in OptKeys : update_value(key, custom_key)
    \/ \E bulk_keys \in OptLists, bulk_custom_keys \in OptLists,
          with_pointers \in BOOLEAN, key_included \in BOOLEAN,
          with_pointers_metadata \in BOOLEAN, limit \in Limits,
          volumes \in OptLists, latest_volume \in {None, Some(FALSE), Some(TRUE)} :
          get_bulk(bulk_keys, bulk_custom_keys, with_pointers, key_included,
                   with_pointers_metadata, limit, volumes, latest_volume)
    \/ \E limit \in Limits, with_pointers \in BOOLEAN, key_included \in BOOLEAN,
          pointers_metadata \in BOOLEAN :
          lookup_values_where(limit, with_pointers, key_included, pointers_metadata)

OpsSpec == Init /\ [][OpsNext]_vars

\* every operation, followed by the send_data call it makes
AllNext ==
    \/ OpsNext
    \/ Connect \/ TlsSetup \/ MakeConnection \/ WriteAll \/ Flush \/ SelectMode
    \/ StreamCheckStop \/ StreamRead \/ OneShotRead \/ Shutdown
    \/ \E v \in BOOLEAN : OwnerSend(v)
    \/ OwnerDrop

\* the engine is configured with the default port
AllInit == Init /\ engine.port = 21210

AllSpec == AllInit /\ [][AllNext]_vars

(* --------------------------- concurrent calls ------------------------- *)

\* send_data keeps all its state in locals: a call is a record of them, and
\* the calls share nothing but the network, which is the list of sockets
soloVars == <<tlsFeature, engine, keyspace, op, opResult, pc, query, callback,
              stop_event, use_tls, port, watch, args, request>>

\* the send_data calls that run concurrently
Calls == {1, 2}

\* what the server sends on socket k: lines that name the socket
ServerStream(k) ==
    [i \in 1..ConnBytes |-> IF i % 2 = 1 THEN Digits[k + 1] ELSE NL]

\* variant: a connection pool hands out the socket that is already open
OpenConnection_pooled(c, cs) ==
    IF cs = <<>> THEN <<[owner |-> c, rx |-> <<>>, tx |-> <<>>]>> ELSE cs

\* TcpStream::connect: a new socket, owned by call c
OpenConnection(c, cs) == Append(cs, [owner |-> c, rx |-> <<>>, tx |-> <<>>])

\* variant: the callback is handed to another task and the loop goes on
InvokeCallback_detached(t) ==
    [t EXCEPT !.pc = "s_check", !.active = @ + 1, !.calls = Append(@, t.buf),
              !.buf = <<>>]

\* cb(&buf): the invocation begins and the loop is inside the call
InvokeCallback(t) ==
    [t EXCEPT !.pc = "s_cb", !.active = @ + 1, !.calls = Append(@, t.buf)]

\* send_data is called: by subscribe, with a callback and a stop receiver,
\* or by a standard operation
ConcCall(c, sub) ==
    /\ tasks[c].pc = "idle"
    /\ tasks' = [tasks EXCEPT ![c] = [@ EXCEPT
            !.pc = "connect",
            !.callback = sub,
            !.query =
                IF sub
                THEN fulfil_subscription_request(engine.store.v, keyspace.name,
                         None, engine.username, engine.password)
                ELSE byte_down(new_raw_command(
                         <<Cmd_create_store, F_store, engine.store.v>>,
                         <<engine.username, engine.password>>))]]
    /\ UNCHANGED <<conns, soloVars, sdVars, resp>>

\* the connection is set up: connect, the optional handshake, split
ConcConnect(c) ==
    /\ tasks[c].pc = "connect"
    /\ \/ /\ conns' = OpenConnection(c, conns)
          /\ tasks' = [tasks EXCEPT ![c] = [@ EXCEPT !.pc = "write",
                                                      !.conn = Len(conns')]]
       \/ /\ tasks' = [tasks EXCEPT ![c] = [@ EXCEPT !.pc = "done",
                                                      !.result = ConnectError]]
          /\ UNCHANGED conns
    /\ UNCHANGED <<soloVars, sdVars, resp>>

\* write_all and flush on the call's socket, then the mode is chosen
ConcWrite(c) ==
    /\ tasks[c].pc = "write"
    /\ \/ /\ conns' = [conns EXCEPT ![tasks[c].conn].tx = Append(@, tasks[c].query)]
          /\ tasks' = [tasks EXCEPT ![c] = [@ EXCEPT
                  !.pc = IF IsSubscription(tasks[c].query) THEN "s_check" ELSE "o_read"]]
       \/ /\ tasks' = [tasks EXCEPT ![c] = [@ EXCEPT
                  !.pc = "done", !.result = ClientEngineError("write failed")]]
          /\ UNCHANGED conns
    /\ UNCHANGED <<soloVars, sdVars, resp>>

\* the stop check at the top of the streaming loop, the sender being alive
ConcCheckStop(c) ==
    /\ tasks[c].pc = "s_check"
    /\ tasks' = [tasks EXCEPT ![c] = [@ EXCEPT
            !.pc = IF StopObserved(tasks[c].callback,
                                   IF tasks[c].stop THEN "OkTrue" ELSE "OkFalse",
                                   tasks[c].stop)
                   THEN "shutdown" ELSE "s_read"]]
    /\ UNCHANGED <<conns, soloVars, sdVars, resp>>

\* reader.read on the call's socket and what follows it in either loop
ConcRead(c) ==
    LET t == tasks[c]
        k == t.conn
        pos == Len(conns[k].rx)
    IN  /\ t.pc \in {"s_read", "o_read"}
        /\ \/ /\ tasks' = [tasks EXCEPT ![c] = [t EXCEPT
                      !.pc = "done",
                      !.result = ClientEngineError("read failed")]]
              /\ UNCHANGED conns
           \/ /\ tasks' = [tasks EXCEPT ![c] = [t EXCEPT
                      !.pc = "shutdown"]]
              /\ UNCHANGED conns
           \/ \E n \in 1..(ConnBytes - pos) :
                 LET chunk == SubSeq(ServerStream(k), pos + 1, pos + n)
                     b == t.buf \o chunk
                     r == [t EXCEPT !.buf = b]
                 IN  /\ conns' = [conns EXCEPT ![k].rx = @ \o chunk]
                     /\ tasks' = [tasks EXCEPT ![c] =
                           IF t.pc = "o_read"
                           THEN [r EXCEPT !.pc = IF OneShotStops(b)
                                                 THEN "shutdown" ELSE "o_read"]
                           ELSE IF CallbackDue(b) /\ t.callback
                           THEN InvokeCallback(r)
                           ELSE [r EXCEPT !.pc = "s_check",
                                          !.buf = StreamBufAfter(b)]]
        /\ UNCHANGED <<soloVars, sdVars, resp>>

\* the callback returns and the buffer is cleared
ConcCallbackReturn(c) ==
    /\ tasks[c].pc = "s_cb"
    /\ tasks' = [tasks EXCEPT ![c] = [@ EXCEPT
            !.pc = "s_check", !.active = @ - 1, !.buf = StreamBufAfter(@)]]
    /\ UNCHANGED <<conns, soloVars, sdVars, resp>>

\* writer.shutdown() and the return value
ConcShutdown(c) ==
    /\ tasks[c].pc = "shutdown"
    /\ \E ok \in BOOLEAN :
          tasks' = [tasks EXCEPT ![c] = [@ EXCEPT
              !.pc = "done",
              !.result = IF ok THEN FinalResult(IsSubscription(tasks[c].query),
                                                tasks[c].buf)
                         ELSE ClientEngineError("shutdown failed")]]
    /\ UNCHANGED <<conns, soloVars, sdVars, resp>>

\* the owner of a subscription sets its token: stop_tx.send(true)
ConcOwnerStop(c) ==
    /\ tasks[c].callback
    /\ tasks[c].pc \notin {"idle", "done"}
    /\ ~tasks[c].stop
    /\ tasks' = [tasks EXCEPT ![c] = [@ EXCEPT !.stop = TRUE]]
    /\ UNCHANGED <<conns, soloVars, sdVars, resp>>

ConcInit ==
    /\ Init
    /\ ~tlsFeature
    /\ engine = [use_tls |-> FALSE, store |-> Some(K), username |-> <<"u">>,
                 password |-> <<"p">>, port |-> 21210]

ConcNext ==
    \E c \in Calls :
        \/ \E sub \in BOOLEAN : ConcCall(c, sub)
        \/ ConcConnect(c)
        \/ ConcWrite(c)
        \/ ConcCheckStop(c)
        \/ ConcRead(c)
        \/ ConcCallbackReturn(c)
        \/ ConcShutdown(c)
        \/ ConcOwnerStop(c)

ConcSpec == ConcInit /\ [][ConcNext]_vars

(* ------------------------------ responses ----------------------------- *)

\* variant: the stream normalizer leaves the payload as it is
stream_recursively_parse_json_asIs(v) == v

\* variant: missing data is taken for an empty buffer
ok_or_else_empty(bytes) ==
    IF IsOk(bytes) /\ ~bytes.some THEN OkSome(<<>>) ELSE bytes

\* .ok_or_else(|| ClientValueParsingError("No data received")) on the
\* transport result: Ok(None) becomes that error
ok_or_else(bytes) ==
    IF IsOk(bytes) /\ ~bytes.some
    THEN [ClientError("ClientValueParsingError") EXCEPT !.msg = "No data received"]
    ELSE bytes

\* recursively_parse_json inside MontycatResponse::parse_response
RECURSIVE recursively_parse_json(_)
recursively_parse_json(v) ==
    IF v.t = "str"
    THEN LET s == v.s
             starts_with(c) == s # <<>> /\ s[1] = c
             ends_with(c) == s # <<>> /\ s[Len(s)] = c
             inner == from_slice(s)
         IN  IF /\ \/ starts_with("{") /\ ends_with("}")
                   \/ starts_with("[") /\ ends_with("]")
                /\ inner.some
             THEN recursively_parse_json(inner.v)
             ELSE v
    ELSE IF v.t \in {"arr", "obj"}
    THEN Json(v.t, <<>>, v.k, [i \in 1..Len(v.a) |-> recursively_parse_json(v.a[i])])
    ELSE v

\* recursively_parse_json inside MontycatStreamResponse::parse_response
RECURSIVE stream_recursively_parse_json(_)
stream_recursively_parse_json(v) ==
    IF v.t = "str"
    THEN LET s == v.s
             starts_with(c) == s # <<>> /\ s[1] = c
             ends_with(c) == s # <<>> /\ s[Len(s)] = c
             inner == from_slice(s)
         IN  IF /\ \/ starts_with("{") /\ ends_with("}")
                   \/ starts_with("[") /\ ends_with("]")
                /\ inner.some
             THEN stream_recursively_parse_json(inner.v)
             ELSE v
    ELSE IF v.t \in {"arr", "obj"}
    THEN Json(v.t, <<>>, v.k, [i \in 1..Len(v.a) |-> stream_recursively_parse_json(v.a[i])])
    ELSE v

\* MontycatResponse::<serde_json::Value>::parse_response: the result, and
\* on Ok the fields of the response. The envelope is decoded from a JSON
\* object: status must be a boolean, payload defaults to null, error is
\* null, absent or a string; other keys are ignored. Anything else is
\* refused, the arrays among it being shorter than the three fields.
parse_response(bytes) ==
    LET null == Json("lit", JsonNull, <<>>, <<>>)
        Failure(e) == [result |-> e, status |-> FALSE, payload |-> null, error |-> None]
        ParsingError(m) ==
            Failure([ClientError("ClientValueParsingError") EXCEPT !.msg = m])
        bytes_unwrapped == ok_or_else(bytes)
        response == from_slice(bytes_unwrapped.bytes)
        has(name) == \E j \in 1..Len(response.v.k) : response.v.k[j] = name
        field(name) == response.v.a[CHOOSE j \in 1..Len(response.v.k) : response.v.k[j] = name]
        status == <<"s", "t", "a", "t", "u", "s">>
        payload == <<"p", "a", "y", "l", "o", "a", "d">>
        error == <<"e", "r", "r", "o", "r">>
    IN  IF IsErr(bytes_unwrapped) THEN Failure(bytes_unwrapped)
        ELSE IF ~response.some THEN ParsingError("syntax")
        ELSE IF response.v.t # "obj" THEN ParsingError("expected a map")
        ELSE IF ~has(status) THEN ParsingError("missing field status")
        ELSE IF field(status).s \notin {JsonBool(TRUE), JsonBool(FALSE)}
                \/ field(status).t # "lit"
        THEN ParsingError("expected a boolean")
        ELSE IF has(error) /\ field(error).t # "str" /\ field(error) # null
        THEN ParsingError("expected a string")
        ELSE LET normalized_payload ==
                     recursively_parse_json(IF has(payload) THEN field(payload) ELSE null)
                 s == to_string(normalized_payload)
                 decoded == from_slice(s)
             IN  IF ~decoded.some THEN ParsingError("syntax")
                 ELSE [result |-> OkNone,
                       status |-> field(status).s = JsonBool(TRUE),
                       payload |-> decoded.v,
                       error |-> IF has(error) /\ field(error).t = "str"
                                 THEN Some(field(error).s) ELSE None]

\* scalars: null, a number, true, a plain string, and strings that look like
\* JSON at one end or both without being JSON, or are JSON with a blank
\* before it
Atoms ==
    {Json("lit", JsonNull, <<>>, <<>>), Json("lit", <<"1">>, <<>>, <<>>),
     Json("lit", JsonBool(TRUE), <<>>, <<>>), Json("str", <<"a">>, <<>>, <<>>),
     Json("str", <<"{">>, <<>>, <<>>), Json("str", <<"[", "a", "]">>, <<>>, <<>>),
     Json("str", <<" ", "[", "]">>, <<>>, <<>>)}

\* the arrays and objects over the values P: empty, of one value, and the
\* arrays of a value and a string holding a JSON array
Composites(P) ==
    {Json("arr", <<>>, <<>>, <<>>), Json("obj", <<>>, <<>>, <<>>)}
    \cup {Json("arr", <<>>, <<>>, <<v>>) : v \in P}
    \cup {Json("arr", <<>>, <<>>, <<v, Json("str", <<"[", "]">>, <<>>, <<>>)>>) : v \in P}
    \cup {Json("obj", <<>>, <<K>>, <<v>>) : v \in P}

\* the payloads of nesting depth d: arrays, objects, and strings that hold
\* the JSON text of an array or object, over the payloads of depth d - 1
RECURSIVE Payloads(_)
Payloads(d) ==
    IF d = 0 THEN Atoms
    ELSE LET P == Payloads(d - 1)
         IN  P \cup Composites(P)
               \cup {Json("str", to_string(c), <<>>, <<>>) : c \in Composites(P)}

\* what the transport hands over for payload v: an error, nothing, the bare
\* payload, or an envelope with the given status and error, each text
\* followed by the newline the server ends its reply with
TransportResult(shape, v, status, error) ==
    LET lit(b) == Json("lit", b, <<>>, <<>>)
        err == IF error.some THEN Json("str", error.v, <<>>, <<>>) ELSE lit(JsonNull)
    IN  CASE shape = "connect" -> ConnectError
          [] shape = "timeout" -> ReadTimedOut(<<>>)
          [] shape = "none" -> OkNone
          [] shape = "empty" -> OkSome(<<>>)
          [] shape = "bare" -> OkSome(to_string(v) \o <<NL>>)
          [] shape = "status" ->
                OkSome(to_string(Json("obj", <<>>, <<<<"s", "t", "a", "t", "u", "s">>>>, <<lit(JsonBool(status))>>))
                       \o <<NL>>)
          [] shape = "envelope" ->
                OkSome(to_string(Json("obj", <<>>, <<<<"s", "t", "a", "t", "u", "s">>, <<"p", "a", "y", "l", "o", "a", "d">>, <<"e", "r", "r", "o", "r">>>>,
                                      <<lit(JsonBool(status)), v, err>>))
                       \o <<NL>>)

RespInit ==
    /\ tlsFeature = FALSE
    /\ engine = [use_tls |-> FALSE, store |-> Some(K), username |-> <<"u">>,
                 password |-> <<"p">>, port |-> 21210]
    /\ keyspace = [name |-> <<"n">>, persistent |-> TRUE, distributed |-> FALSE]
    /\ op = "none" /\ opResult = Pending /\ pc = "idle" /\ query = <<>>
    /\ callback = FALSE /\ stop_event = FALSE /\ use_tls = FALSE /\ port = 0
    /\ tls_stream = FALSE /\ connection = "None" /\ is_subscription = FALSE
    /\ buf = <<>> /\ chunksRead = <<>> /\ calls = <<>> /\ io = NoIo
    /\ nWritten = 0 /\ exit = "none" /\ sdResult = Pending
    /\ watch = [value |-> FALSE, version |-> 0, senderAlive |-> FALSE]
    /\ rxVersion = 0 /\ calledWhileSet = FALSE /\ lastRead = "none"
    /\ args = NoArgs /\ request = None
    /\ tasks = <<IdleTask, IdleTask>> /\ conns = <<>> /\ log = <<>>
    /\ \E v \in Payloads(MaxDepth), status \in BOOLEAN, error \in {None, Some(<<"e">>)},
          shape \in {"connect", "timeout", "none", "empty", "bare", "status", "envelope"} :
          resp = [NoResp EXCEPT !.pc = "given", !.v = v, !.shape = shape,
                                !.status = status, !.error = error,
                                !.input = TransportResult(shape, v, status, error)]

\* the caller hands the transport result to MontycatResponse::parse_response
ParseResponse ==
    /\ resp.pc = "given"
    /\ resp' = [resp EXCEPT !.out = parse_response(resp.input), !.pc = "parsed"]
    /\ UNCHANGED <<soloVars, sdVars, tasks, conns>>

\* each of the two normalizers is applied to the payload, and the first one
\* once more to its own result
Normalize ==
    /\ resp.pc = "given"
    /\ resp' = [resp EXCEPT !.pc = "normalized",
                            !.n1 = recursively_parse_json(resp.v),
                            !.n2 = recursively_parse_json(recursively_parse_json(resp.v)),
                            !.s1 = stream_recursively_parse_json(resp.v)]
    /\ UNCHANGED <<soloVars, sdVars, tasks, conns>>

RespNext == ParseResponse \/ Normalize

RespSpec == RespInit /\ [][RespNext]_vars

(* ------------------------------- claims ------------------------------- *)

\* send_data returned Ok from the one-shot loop
OneShotOk == pc = "done" /\ IsOk(sdResult) /\ ~is_subscription

\* send_data returned Ok from the streaming loop
StreamingOk == pc = "done" /\ IsOk(sdResult) /\ is_subscription

\* the concatenation of the first n chunks read
Received(n) == Concat(SubSeq(chunksRead, 1, n))

\* a newline-terminated line holding no other newline
IsLine(c) == c # <<>> /\ \A i \in 1..Len(c) : (c[i] = NL) <=> (i = Len(c))

\* C1: in one-shot mode, however the server's bytes are split across reads,
\* the loop stops after the first read that leaves a newline in the buffer or
\* returns zero bytes, and the call returns Some(buffer) with buffer the
\* in-order concatenation of every chunk read; one line then close returns
\* exactly that line.
C1_OneShotReturnsWhatWasRead ==
    /\ pc = "o_read" => buf = Received(Len(chunksRead)) /\ ~ContainsNewline(buf)
    /\ OneShotOk =>
          /\ sdResult = OkSome(Received(Len(chunksRead)))
          /\ \A n \in 0..(Len(chunksRead) - 1) : ~ContainsNewline(Received(n))
          /\ IF lastRead = "eof"
             THEN io.reads = Len(chunksRead) + 1 /\ ~ContainsNewline(sdResult.bytes)
             ELSE io.reads = Len(chunksRead) /\ ContainsNewline(sdResult.bytes)
          /\ (Len(chunksRead) = 1 /\ IsLine(chunksRead[1])) => sdResult.bytes = chunksRead[1]

\* a line that arrived split over two reads was returned whole
C1_Witness ==
    /\ OneShotOk
    /\ chunksRead = << <<"a">>, <<"a", NL>> >>
    /\ sdResult = OkSome(<<"a", "a", NL>>)

\* C2 as stated: a one-shot call returns Ok(None) exactly when the server
\* closed before any byte was accumulated, and Ok(Some(buffer)) with a
\* non-empty buffer otherwise.
C2_NoneIffNothingRead ==
    OneShotOk =>
        /\ (sdResult = OkNone) <=> (chunksRead = <<>>)
        /\ sdResult.some => sdResult.bytes # <<>>

\* C2 as amended: a one-shot call never returns Ok(None); every successful
\* completion returns Ok(Some(buffer)), and the buffer is empty exactly when
\* the server closed the stream before any byte was accumulated.
C2_AlwaysSome ==
    OneShotOk =>
        /\ sdResult.some
        /\ (sdResult.bytes = <<>>) <=> (chunksRead = <<>>)
        /\ chunksRead = <<>> => lastRead = "eof"

\* the server closed at once and the call returned Some of an empty buffer
C2_Witness ==
    OneShotOk /\ lastRead = "eof" /\ chunksRead = <<>> /\ sdResult = OkSome(<<>>)

\* C3: a one-shot read that times out makes send_data return an error,
\* whatever earlier reads accumulated; the accumulated bytes are not returned
\* and nothing more is read.
C3_TimeoutIsAnError ==
    [][/\ lastRead' = "timeout" =>
            /\ pc' = "done"
            /\ sdResult'.kind = "ClientEngineError"
            /\ sdResult'.bytes = <<>> /\ ~sdResult'.some
            /\ opResult' = sdResult'
       /\ lastRead = "timeout" => io' = io /\ sdResult' = sdResult]_vars

\* a read timed out after earlier reads had accumulated bytes
C3_Witness ==
    lastRead = "timeout" /\ buf # <<>> /\ pc = "done" /\ ~is_subscription

\* C4: in streaming mode with a callback, each read that leaves a newline in
\* the buffer invokes the callback exactly once with the whole buffer
\* accumulated since the previous invocation and the buffer is empty before
\* the next read; other reads invoke nothing.  Reads that each deliver one
\* complete line give one invocation per line, each with its own line.
C4_OneCallbackPerNewlineRead ==
    [][(is_subscription' /\ callback') =>
          /\ chunksRead' # chunksRead =>
                LET b == buf \o chunksRead'[Len(chunksRead')]
                IN  IF ContainsNewline(b)
                    THEN calls' = Append(calls, b) /\ buf' = <<>>
                    ELSE calls' = calls /\ buf' = b
          /\ chunksRead' = chunksRead => calls' = calls
          /\ Concat(calls') \o buf' = Concat(chunksRead')
          /\ pc' = "s_read" => ~ContainsNewline(buf')
          /\ (\A i \in 1..Len(chunksRead') : IsLine(chunksRead'[i]))
                => calls' = chunksRead']_vars

\* two reads, two lines, two invocations
C4_Witness ==
    /\ is_subscription /\ callback
    /\ chunksRead = << <<"a", NL>>, <<NL>> >>
    /\ calls = chunksRead
    /\ buf = <<>>

\* C5 as stated: every buffer passed to the callback ends with the newline
\* byte, however the stream is split into reads.
C5_CallbackBufferEndsAtNewline ==
    \A i \in 1..Len(calls) : calls[i][Len(calls[i])] = NL

\* C6 as stated: once the owner has set the token to true, before the next
\* chunk arrives, no callback invocation begins.
C6_NoCallbackAfterTokenSet == ~calledWhileSet

\* C6 as amended: when the check at the top of an iteration, before the read
\* is issued, finds the sender alive and the token changed to true, the loop
\* exits without that read, no callback invocation begins afterwards and the
\* shutdown of the write half is issued before send_data returns; a token
\* set while a read is in flight does not stop the callback for that read.
C6_CancelObservedAtCheck ==
    [][/\ ( /\ pc = "s_check" /\ pc' # pc
            /\ stop_event /\ watch.senderAlive
            /\ watch.version # rxVersion /\ watch.value )
          => pc' = "shutdown" /\ exit' = "cancel"
       /\ exit = "cancel" => calls' = calls /\ io'.reads = io.reads
       /\ (exit' = "cancel" /\ pc' = "done") => io'.shutdowns = 1]_vars

\* a subscription that had delivered data was cancelled and returned
C6_Witness ==
    exit = "cancel" /\ pc = "done" /\ IsOk(sdResult) /\ Len(calls) = 1

\* C7: a streaming call that completes successfully returns Ok(None),
\* whatever it received; data is seen only through the callback, and without
\* a callback it is discarded.
C7_StreamingReturnsNone ==
    /\ StreamingOk => sdResult = OkNone /\ opResult \in {OkNone, OkSender}
    /\ (is_subscription /\ ~callback) => calls = <<>>

\* a streaming call without callback received bytes and returned None
C7_Witness ==
    StreamingOk /\ ~callback /\ Len(chunksRead) = 2 /\ buf # <<>> /\ sdResult = OkNone

\* C8 as stated: only requests built by subscribe run in streaming mode, and
\* a successful standard request returns Some(response bytes).
C8_StandardRequestsAreOneShot ==
    /\ is_subscription => op = "subscribe"
    /\ (op \in {"create_store", "get_value"} /\ pc = "done" /\ IsOk(opResult))
          => opResult.some

\* C9 as stated: in a build without TLS support, a call with use_tls = true
\* ends with the TLS configuration error and writes nothing.
C9_TlsRequestedWithoutFeature ==
    (~tlsFeature /\ use_tls /\ pc = "done" /\ sdResult # Pending) =>
        /\ sdResult = ClientEngineError("TLS feature not enabled")
        /\ nWritten = 0 /\ io.writes = 0

\* C10 as stated: with use_tls = false and a reachable host the call does
\* no handshake and goes on to write the request, in every build.
C10_PlainTransportInEveryBuild ==
    (op # "none" /\ ~use_tls /\ pc = "done" /\ sdResult # Pending
        /\ sdResult # ClientEngineError("connect failed")) =>
        io.handshakes = 0 /\ io.writes = 1

\* C11 as stated: the error returned for a TLS handshake failure or a
\* handshake timeout is of another error kind than the error returned for a
\* failed socket connection, so that the kind alone tells them apart.
C11_HandshakeErrorKindIsDistinct ==
    (pc = "done" /\ sdResult \in {TlsError("failed"), TlsError("timeout")})
        => sdResult.kind # ConnectError.kind

\* C12: a call of send_data connects at most once, does at most one
\* handshake and writes the request at most once; the first failure of
\* connect, handshake, write, flush, read or shutdown ends the call with an
\* Err handed to the caller, and a call that has ended does no more I/O.
C12_FirstFailureEndsTheCall ==
    [][/\ io'.connects <= 1 /\ io'.handshakes <= 1 /\ io'.writes <= 1
       /\ io'.flushes <= 1 /\ io'.shutdowns <= 1
       /\ pc = "done" => io' = io /\ nWritten' = nWritten /\ sdResult' = sdResult
       /\ (io'.writes # io.writes /\ nWritten' # Len(query)) => IsErr(sdResult')
       /\ (io'.reads # io.reads /\ lastRead' \in {"error", "timeout"}) => IsErr(sdResult')
       /\ (io' # io /\ pc' = "done" /\ io'.shutdowns = io.shutdowns) => IsErr(sdResult')
       /\ IsErr(sdResult') =>
             /\ pc' = "done"
             /\ op # "subscribe" => opResult' = sdResult'
             /\ sdResult'.msg = "connect failed" =>
                   io' = [NoIo EXCEPT !.connects = 1]
             /\ sdResult'.msg \in {"TLS handshake failed", "TLS handshake timed out"} =>
                   io' = [NoIo EXCEPT !.connects = 1, !.handshakes = 1]
             /\ sdResult'.msg = "write failed" =>
                   io'.writes = 1 /\ io'.flushes = 0 /\ io'.reads = 0 /\ io'.shutdowns = 0
             /\ sdResult'.msg = "flush failed" =>
                   io'.flushes = 1 /\ io'.reads = 0 /\ io'.shutdowns = 0
             /\ sdResult'.msg \in {"read failed", "deadline has elapsed"} =>
                   io'.shutdowns = 0 /\ lastRead' \in {"error", "timeout"}]_vars

\* the flush failed after the handshake and the write had succeeded
C12_Witness ==
    /\ pc = "done"
    /\ sdResult = ClientEngineError("flush failed")
    /\ opResult = sdResult
    /\ io = [NoIo EXCEPT !.connects = 1, !.handshakes = 1, !.writes = 1, !.flushes = 1]

\* C13 as stated: every request handed to send_data, in the Raw encoding,
\* the Store encoding or built by subscribe, ends with a newline byte and
\* holds no other newline byte.
C13_RequestIsOneLine ==
    (pc # "idle" /\ query # <<>>) => IsLine(query)

\* C14 as stated: for every engine port, a subscribe that passes its checks
\* completes and connects on the engine's port plus one, a valid 16-bit port,
\* while the one-shot operations connect on the engine's port.
C14_SubscribePortIsNextPort ==
    /\ (op = "subscribe"
        /\ opResult.kind \notin {"Pending", "ClientStoreNotSet",
                                 "ClientSelectedBothKeyAndCustomKey"})
          => opResult = OkSender /\ port = engine.port + 1 /\ port \in 1..U16_MAX
    /\ (op \in {"create_store", "get_value"} /\ query # <<>>) => port = engine.port

\* C15: concurrent send_data calls, one-shot and streaming mixed, each open
\* their own socket and write their request on it once; what a call returns
\* or passes to its callback is what was received on its own socket; a step
\* of one call (its completion, failure or cancellation included) leaves the
\* other call and the other call's socket as they were, and a result, once
\* returned, does not change.
C15_CallsAreIndependent ==
    [][\A c \in Calls :
          LET t == tasks'[c]
          IN  /\ Cardinality({k \in 1..Len(conns') : conns'[k].owner = c}) <= 1
              /\ t.conn # 0 =>
                    LET sock == conns'[t.conn]
                    IN  /\ sock.owner = c
                        /\ Len(sock.tx) <= 1
                        /\ sock.tx # <<>> => sock.tx[1] = t.query
                        /\ IF IsSubscription(t.query)
                           THEN /\ Concat(t.calls)
                                     \o (IF t.pc = "s_cb" THEN <<>> ELSE t.buf) = sock.rx
                                /\ IsOk(t.result) => t.result = OkNone
                           ELSE /\ t.buf = sock.rx
                                /\ t.calls = <<>>
                                /\ IsOk(t.result) => t.result = OkSome(sock.rx)
              /\ tasks[c].result # Pending => t = tasks[c]
              /\ \A d \in Calls \ {c} :
                    t # tasks[c] =>
                       /\ tasks'[d] = tasks[d]
                       /\ tasks[d].conn # 0 => conns'[tasks[d].conn] = conns[tasks[d].conn]]_vars

\* the call made first connected second: each got the bytes of its own
\* socket, the one-shot call as its result, the cancelled subscription
\* through its callback
C15_Witness ==
    /\ tasks[1].conn = 2 /\ tasks[2].conn = 1
    /\ tasks[1].result = OkSome(<<"2", NL>>)
    /\ tasks[2].stop /\ tasks[2].result = OkNone
    /\ tasks[2].calls = << <<"1", NL>> >>

\* C16: within one subscription at most one callback invocation is in
\* progress, an invocation begins only when none is in progress, the loop is
\* at a read only when none is in progress and nothing is received on the
\* socket meanwhile, and the buffers passed to the callback are, in order,
\* consecutive pieces of what arrived.
C16_CallbackIsSequential ==
    [][\A c \in Calls :
          /\ tasks'[c].active <= 1
          /\ tasks'[c].pc \in {"s_read", "o_read"} => tasks'[c].active = 0
          /\ tasks'[c].calls # tasks[c].calls =>
                /\ tasks[c].active = 0 /\ tasks'[c].active = 1
                /\ tasks'[c].calls = Append(tasks[c].calls, tasks'[c].buf)
          /\ tasks[c].active > 0 =>
                conns'[tasks[c].conn].rx = conns[tasks[c].conn].rx
          /\ tasks'[c].conn # 0 =>
                LET got == Concat(tasks'[c].calls)
                IN  got = SubSeq(conns'[tasks'[c].conn].rx, 1, Len(got))]_vars

\* the second invocation of a subscription's callback is in progress, after
\* the first has returned, while the other subscription's callback runs too
C16_Witness ==
    /\ tasks[1].pc = "s_cb" /\ tasks[1].active = 1
    /\ tasks[1].calls = << <<"1", NL>>, <<"1", NL>> >>
    /\ tasks[2].pc = "s_cb" /\ tasks[2].active = 1

\* the operation has called send_data with a request
RequestSent == pc = "connect" /\ query # <<>>

\* the keys a call was given, as the request should carry them: the hash of
\* a custom key, a plain key unchanged
HashedCustom(xs) == [i \in 1..Len(xs) |-> convert_custom_key(xs[i])]

\* C17: in every operation that accepts a custom key, the key placed in the
\* request for a supplied custom key is convert_custom_key(custom_key), and a
\* key supplied as a plain key is sent unchanged. Stated for the calls that
\* supply one of the two, and for get_bulk's key lists. Violated: subscribe and
\* update_value send the custom key as it was given.
C17_CustomKeyIsHashed ==
    LET one == args.key.some # args.custom_key.some
        expected == IF args.custom_key.some
                    THEN convert_custom_key(args.custom_key.v) ELSE args.key.v
    IN  /\ (RequestSent /\ one
              /\ op \in {"get_value", "delete_key", "list_all_depending_keys",
                         "update_value"})
           => request.v.key = Some(expected)
        /\ (RequestSent /\ one /\ op = "subscribe")
           => query = fulfil_subscription_request(engine.store.v, keyspace.name,
                          Some(expected), engine.username, engine.password)
        /\ (RequestSent /\ op = "get_bulk")
           => request.v.bulk_keys =
                  (IF args.bulk_keys.some THEN args.bulk_keys.v ELSE <<>>)
                  \o (IF args.bulk_custom_keys.some
                      THEN HashedCustom(args.bulk_custom_keys.v) ELSE <<>>)

\* C18: get_value, delete_key and list_all_depending_keys accept a call only
\* when exactly one of key and custom_key is supplied: with both they return
\* ClientSelectedBothKeyAndCustomKey, with neither ClientNoValidInputProvided,
\* and in both cases no request is sent. Violated: get_value returns
\* ClientSelectedBothKeyAndCustomKey for neither and sends a request for both;
\* list_all_depending_keys sends a request for neither.
C18_ExactlyOneKeyAccepted ==
    (pc # "idle" /\ op \in {"get_value", "delete_key", "list_all_depending_keys"})
    => /\ (args.key.some /\ args.custom_key.some)
          => /\ opResult = ClientError("ClientSelectedBothKeyAndCustomKey")
             /\ ~RequestSent
       /\ (~args.key.some /\ ~args.custom_key.some)
          => /\ opResult = ClientError("ClientNoValidInputProvided")
             /\ ~RequestSent

\* C19: get_bulk builds and sends a request exactly when one and only one of
\* the three selectors is supplied (a non-empty set of keys, a non-empty
\* volumes list, latest_volume = true) and otherwise returns the 'multiple
\* conflicting options' ClientGenericError. Stated for the calls whose other
\* arguments pass their own checks. Violated: a call with only volumes or only
\* latest_volume = true returns ClientNoValidInputProvided.
C19_GetBulkOneSelector ==
    LET nonEmpty(o) == o.some /\ o.v # <<>>
        selectors ==
            (IF nonEmpty(args.bulk_keys) \/ nonEmpty(args.bulk_custom_keys) THEN 1 ELSE 0)
            + (IF nonEmpty(args.volumes) THEN 1 ELSE 0)
            + (IF args.latest_volume = Some(TRUE) THEN 1 ELSE 0)
        othersValid ==
            /\ ~(args.with_pointers /\ args.pointers_metadata)
            /\ engine.store.some
            /\ ~(args.limit.some /\ args.limit.v.start > args.limit.v.stop)
    IN  (pc # "idle" /\ op = "get_bulk" /\ othersValid)
        => IF selectors = 1
           THEN RequestSent
           ELSE /\ ~RequestSent
                /\ opResult = ClientGenericError(MultipleOptions)

\* C20: get_value, get_bulk and lookup_values_where return
\* ClientSelectedBothPointersValueAndMetadata when with_pointers and
\* pointers_metadata are both true, and no request with both flags set is ever
\* sent. Stated for the calls whose other arguments pass their own checks and
\* whose engine has a store. Violated:
\* lookup_values_where does not compare the flags and sends the request.
C20_BothPointerFlagsRejected ==
    /\ (/\ pc # "idle"
        /\ op \in {"get_value", "get_bulk", "lookup_values_where"}
        /\ args.with_pointers /\ args.pointers_metadata
        /\ op = "get_value" => (args.key.some \/ args.custom_key.some)
        /\ engine.store.some
        /\ ~(args.limit.some /\ args.limit.v.start > args.limit.v.stop))
       => opResult = ClientError("ClientSelectedBothPointersValueAndMetadata")
    /\ (RequestSent /\ request.some)
       => ~(request.v.with_pointers /\ request.v.pointers_metadata)

\* the place of an operation in the order connect, handshake, write, flush,
\* reads and callbacks, shutdown
Rank(ev) ==
    CASE ev = "connect" -> 1
      [] ev = "handshake" -> 2
      [] ev = "write" -> 3
      [] ev = "flush" -> 4
      [] ev \in {"read", "callback"} -> 5
      [] ev = "shutdown" -> 6

\* operation ev returned Ok before position j of the log
Succeeded(ev, j) == \E i \in 1..(j - 1) : log[i] = [ev |-> ev, ok |-> TRUE]

\* C23: the I/O operations of a send_data call occur in the order connect,
\* TLS handshake (if and only if use_tls), write, flush, reads, shutdown, each
\* of the others at most once; no read before the flush has succeeded, no
\* write before the connect (and the handshake, when TLS) has succeeded,
\* nothing after a failed operation, and on every Ok return the write half
\* was shut down exactly once, as the last operation.
C23_IoOrder ==
    /\ \A i, j \in 1..Len(log) :
          i < j => /\ Rank(log[i].ev) <= Rank(log[j].ev)
                   /\ log[i].ok
                   /\ Rank(log[i].ev) = Rank(log[j].ev) => Rank(log[i].ev) = 5
    /\ \A j \in 1..Len(log) :
          /\ log[j].ev = "handshake" => use_tls /\ Succeeded("connect", j)
          /\ log[j].ev = "write"
             => /\ Succeeded("connect", j)
                /\ use_tls <=> Succeeded("handshake", j)
          /\ log[j].ev \in {"read", "callback"}
             => /\ Succeeded("write", j) /\ Succeeded("flush", j)
                /\ nWritten = Len(query)
          /\ log[j].ev = "shutdown" => Succeeded("flush", j)
    /\ (pc = "done" /\ op # "none" /\ IsOk(sdResult))
       => /\ log # <<>>
          /\ log[Len(log)] = [ev |-> "shutdown", ok |-> TRUE]

\* a subscription over TLS that invoked its callback and returned Ok
C23_Witness ==
    /\ pc = "done" /\ IsOk(sdResult) /\ use_tls /\ is_subscription
    /\ \E j \in 1..Len(log) : log[j].ev = "callback"
    /\ \E j \in 1..Len(log) : log[j].ev = "handshake"

\* the owner holds the sender and the token it has set is true
TokenSet == stop_event /\ watch.senderAlive /\ watch.version # rxVersion /\ watch.value

ValidationErrors ==
    {ClientError(k) : k \in {"ClientStoreNotSet", "ClientSelectedBothKeyAndCustomKey",
                             "ClientNoValidInputProvided",
                             "ClientSelectedBothPointersValueAndMetadata"}}
    \cup {ClientGenericError(MultipleOptions),
          ClientGenericError("Limit start cannot be greater than stop")}

\* C25: whenever an Engine or Keyspace operation has returned a validation
\* error, no connection was opened and no byte was written: send_data was
\* not called.
C25_ValidationBeforeIo ==
    opResult \in ValidationErrors
    => /\ pc = "done" /\ query = <<>> /\ ~request.some
       /\ io = NoIo /\ log = <<>> /\ nWritten = 0 /\ connection = "None"

\* get_bulk refused a limit with start > stop, the last of its checks
C25_Witness ==
    /\ op = "get_bulk"
    /\ opResult = ClientGenericError("Limit start cannot be greater than stop")
    /\ io = NoIo

\* C26: in streaming mode no received byte is delivered twice or out of
\* order: the buffers passed to the callback, concatenated in invocation
\* order, are a prefix of the bytes received; with a callback the bytes
\* received and not delivered are exactly the accumulation buffer, which
\* holds no newline, and when the loop has ended (remote close, cancellation
\* or read error) they are returned to nobody.
C26_DeliveredIsPrefixOfReceived ==
    is_subscription =>
        LET delivered == Concat(calls)
            received == Concat(chunksRead)
        IN  /\ Len(delivered) <= Len(received)
            /\ delivered = SubSeq(received, 1, Len(delivered))
            /\ callback =>
                  /\ SubSeq(received, Len(delivered) + 1, Len(received)) = buf
                  /\ ~ContainsNewline(buf)
            /\ sdResult.bytes = <<>> /\ opResult.bytes = <<>>

\* a line was delivered, a byte without newline followed, the server closed
C26_Witness ==
    /\ is_subscription /\ callback /\ pc = "done" /\ exit = "eof"
    /\ calls = << <<"a", NL>> >>
    /\ buf = <<"a">>
    /\ sdResult = OkNone

C29_OnlySendTrueCancels ==
    [][/\ (exit' = "cancel" /\ exit # "cancel")
          => /\ pc = "s_check" /\ stop_event
             /\ watch.value /\ watch.version > 0
       /\ (pc = "s_check" /\ pc' # pc /\ ~watch.value) => pc' = "s_read"
       /\ (is_subscription' /\ pc' = "done" /\ exit' # "cancel")
          => exit' = "eof" \/ sdResult' = ClientEngineError("read failed")
      ]_vars

\* the owner sent false and dropped the sender; the loop went on delivering
\* until the server closed the connection
C29_Witness ==
    /\ op = "subscribe" /\ pc = "done" /\ exit = "eof"
    /\ watch.version > 0 /\ ~watch.value /\ ~watch.senderAlive
    /\ Len(calls) = 2

\* C28: a one-shot send_data call returns in the end when every connect,
\* handshake, write and read completes or times out and the server's
\* newline-free data comes to an end; the loop itself has no deadline and no
\* size limit: a read that delivers data without a newline is followed by
\* another read, with a longer buffer, however much has been read before.
C28_OneShotEndsUnlessFedForever ==
    /\ [][(pc = "o_read" /\ lastRead' = "data" /\ chunksRead' # chunksRead)
          => IF ContainsNewline(buf')
             THEN pc' = "shutdown"
             ELSE pc' = "o_read" /\ Len(buf') > Len(buf) /\ sdResult' = Pending
         ]_vars
    /\ (pc = "connect" /\ ~IsSubscription(query)) ~> (pc = "done")

\* three reads brought three bytes without a newline, the next one timed out
C28_Witness ==
    /\ pc = "done" /\ ~is_subscription /\ ~IsSubscription(query)
    /\ Len(chunksRead) = MaxBytes /\ ~ContainsNewline(buf)
    /\ lastRead = "timeout"

\* v is, or holds at some depth of arrays and objects, a string whose text a
\* JSON parser reads as an array or an object
RECURSIVE HoldsJsonString(_)
HoldsJsonString(v) ==
    IF v.t = "str"
    THEN from_slice(v.s).some /\ from_slice(v.s).v.t \in {"arr", "obj"}
    ELSE \E i \in 1..Len(v.a) : HoldsJsonString(v.a[i])

\* C21: normalization replaces each string that starts and ends with
\* matching {} or [] delimiters and parses as JSON by its parsed value, at
\* any depth; a string that fails to parse is left unchanged, every other
\* scalar passes through unchanged, and so the result holds no string that
\* is itself a parsable JSON object or array.
C21_NoJsonStringIsLeft ==
    resp.pc = "normalized" =>
        /\ resp.v.t = "lit" => resp.n1 = resp.v
        /\ resp.v.t = "str" /\ ~from_slice(resp.v.s).some => resp.n1 = resp.v
        /\ ~HoldsJsonString(resp.n1)

C30_IdempotentAndTheSame ==
    resp.pc = "normalized" =>
        /\ resp.n2 = resp.n1
        /\ resp.s1 = resp.n1

\* C30: an array holding a string of JSON text has been normalized, and a
\* string inside that text was unwrapped as well
C30_Witness ==
    /\ resp.pc = "normalized"
    /\ resp.v.t = "arr"
    /\ resp.n1 # resp.v
    /\ \E i \in 1..Len(resp.v.a) :
          /\ resp.v.a[i].t = "str"
          /\ resp.n1.a[i].t = "arr"
          /\ Len(resp.n1.a[i].a) = 2
          /\ resp.n1.a[i].a[2].t = "arr"

====
